---- MODULE Spec2Model ----
(***************************************************************************)
(* Verification model of the DataLogger acquisition core.                  *)
(*                                                                         *)
(*   data_logger.py         polling scheduler: start_logging_thread,       *)
(*                          stop_logging_thread, log_temperatures,         *)
(*                          set_sensor_status, set_sensor_interval         *)
(*   sm_tc/__init__.py      channel driver: connect, disconnect, get_temp  *)
(*   text_file_logger.py    text sink: log_reading                         *)
(*   database_manager.py    structured sink: insert_reading                *)
(*   notification_system.py alert dispatcher                               *)
(*                                                                         *)
(* Every Python statement that touches shared state is one atomic step;    *)
(* a caller or a thread is interleaved with the others between steps.      *)
(***************************************************************************)
EXTENDS Integers, Sequences, FiniteSets, TLC

\* ------------------------------------------------------------------------
\* Bounds of the model
\* ------------------------------------------------------------------------
\* data_logger.py:21 sets 8 channels; the model keeps the first channels only.
NUMBER_OF_CHANNELS == 2
\* Number of clock ticks after the start-up instant T0.
MaxTicks == 1
\* Number of Thread objects that exist (are referenced or running) at a time.
MaxThreads == 2
\* Number of API callers (HTTP routes, Telegram commands, GPIO buttons).
NumCallers == 2

\* Number of alerts create_alert accepts in a behaviour.
MaxAlerts == 3
\* Number of valid CPU temperature readings in a behaviour.
MaxReadings == 4
\* Step of the alert clock, in minutes, and its last instant.
TickMinutes == 15
MaxMinutes == 30
\* Number of alerts in queued_alerts.json when the dispatcher starts.
MaxSaved == 2
\* Number of log_reading calls in a behaviour of the text logger.
MaxWrites == 3
\* Number of maintenance passes in a behaviour of the loop thread.
MaxPasses == 2
\* Last second of the clock of the paced loop, and the step of that clock.
MaxSeconds == 20
TickSeconds == 5
\* Number of worker threads the notification system creates.
MaxWorkers == 2
\* Number of threads that call log_reading.
NumWriters == 2
MaxRows == 3
MaxStamp == 2

\* ------------------------------------------------------------------------
\* Program constants
\* ------------------------------------------------------------------------
\* config.py:31, data_logger.py:22
SAMPLE_INTERVAL_SECONDS == 5
\* time.time() at start-up; any value >= the largest interval will do, since
\* last_log_time starts at 0 (data_logger.py:76).
T0 == 5
\* data_logger.py:129, time.sleep(10) of the handler, seconds
EXCEPT_SLEEP_SECONDS == 10
\* notification_system.py:191, config['rate_limiting']
duplicate_suppression_minutes == 30
\* notification_system.py:148-149, degrees
temp_warning_threshold == 70
temp_critical_threshold == 80
\* text_file_logger.py:138, hours of a day
HOURS_PER_DAY == 24
\* text_file_logger.py:44-46, retention and compression thresholds
max_raw_files == 48
max_daily_files == 30
compress_after_days == 7

None == 0
Channels == 1..NUMBER_OF_CHANNELS
Threads == 1..MaxThreads
Callers == 1..NumCallers
Times == T0..(T0 + MaxTicks)
\* A number of a JSON request body: its integer part and whether a fractional
\* part follows it.
Number(whole, fraction) == [whole |-> whole, fraction |-> fraction]
\* int(x): the fractional part is dropped.
int(x) == x.whole
\* Arguments the API layer passes to set_sensor_interval.
IntervalInputs == {Number(1, FALSE)}
\* Any number a request body may carry as 'interval'.
AnyInterval == {Number(whole, fraction) : whole \in {-1, 0, 1, 2}, fraction \in BOOLEAN}
\* Channel arguments, valid and invalid.
ChannelInputs == 0..(NUMBER_OF_CHANNELS + 1)

VARIABLES
    \* data_logger.py module state
    logging_thread,         \* the Thread object, or None
    logging_stop_event,     \* th.Event: TRUE when set
    sensor_active_status,   \* channel -> enabled flag
    sensor_intervals,       \* channel -> interval in seconds
    \* Thread objects
    tstate,                 \* thread -> "unborn" | "created" | "alive" | "dead"
    tpc,                    \* thread -> position in log_temperatures
    ti,                     \* thread -> loop variable i
    current_time,           \* thread -> current_time of the running tick
    last_log_time,          \* thread -> channel -> last_log_time
    \* API callers
    cpc,                    \* caller -> position in start/stop
    cjoin,                  \* caller -> thread it is joining
    cret,                   \* caller -> outcome of its last call: "none" while a call runs
    \* environment
    now,                    \* wall clock
    daq_connected,          \* SMtc.connected
    cal_bad,                \* channels whose calibration entry makes apply_correction raise
    db_up,                  \* FALSE: every insert_reading raises
    text_up,                \* FALSE: every text-file open/write fails
    \* sinks
    text_log,               \* lines written by text_file_logger: <<channel, timestamp>>
    db_rows                 \* rows inserted in the structured store: <<channel, tick of the Reading>>

schedVars == <<logging_thread, logging_stop_event, sensor_active_status, sensor_intervals>>
threadVars == <<tstate, tpc, ti, current_time, last_log_time>>
callVars == <<cpc, cjoin, cret>>
envVars == <<now, daq_connected, cal_bad, db_up, text_up>>
sinkVars == <<text_log, db_rows>>
coreVars == <<schedVars, threadVars, callVars, envVars, sinkVars>>

VARIABLES
    \* notification_system.py: EmailNotificationSystem and ConnectivityMonitor
    alert_queue,            \* queue.Queue of Alert objects, oldest first
    sent_alerts,            \* list of the alerts send_email has delivered
    queued_alerts,          \* content of queued_alerts.json; <<>> when the file is absent
    internet_connected,     \* ConnectivityMonitor.internet_connected
    board_connected,        \* ConnectivityMonitor.board_connected
    email_enabled,          \* config['enabled']
    wall_minutes,           \* datetime.now(), in minutes
    \* history
    accepted                \* the alerts create_alert has put on a queue, in order

alertVars == <<alert_queue, sent_alerts, queued_alerts, internet_connected,
               board_connected, email_enabled, wall_minutes, accepted>>

\* Days the text logger is observed on: the first days and the days around
\* the compression and retention thresholds after them.  Days and hours are
\* counted from an epoch before the first day, so that no name is None.
\* Instants are the first two hours of the observed days.
FirstDay == None + 1

ObservedDays ==
    {FirstDay + k : k \in {0, 1, 2, compress_after_days, compress_after_days + 1,
                           max_daily_files, max_daily_files + 1}}

Instants == {d * HOURS_PER_DAY + h : d \in ObservedDays, h \in 0..1}

\* A file name that does not parse as a timestamp ("notes.txt").
JunkName == -1

RawNames == Instants \cup {JunkName}

DayNames == ObservedDays \cup {JunkName}

\* A file that does not exist (or is empty).
Absent == <<>>

\* _current_raw_file when the file it was opened on has been unlinked.
Orphan == -2

VARIABLES
    \* text_file_logger.py: TextFileLogger and its directories
    raw_dir,                \* data/raw: hour of the name -> lines of the file, or Absent
    daily_dir,              \* data/daily: day of the name -> lines of the file, or Absent
    compressed_dir,         \* data/compressed: day of the name -> archive, or Absent
    current_raw_file,       \* _current_raw_file: name of the file the handle writes to, or None
    current_raw_filename,   \* _current_raw_filename, or None
    fs_now,                 \* datetime.now() of the text logger, in hours
    compress_pc,            \* day whose archive compress_old_files has written, or None
    \* history
    logged,                 \* hour -> number of log_reading calls with a timestamp in it
    reopened,               \* names of the non-empty files log_reading has opened for append
    open_handles            \* names the logger has opened for append and not closed since

textVars == <<raw_dir, daily_dir, compressed_dir, current_raw_file,
              current_raw_filename, fs_now, compress_pc, logged, reopened,
              open_handles>>

VARIABLES
    \* calibration.py: calibration.json and the calls on it
    calibration_json,       \* the file: [readable, factors], factors: key -> profile
    cal_pending,            \* the factors a save_calibration_factors in progress is to dump
    \* history
    cal_call,               \* the last call of a setter: [op, channel, args, ret]
    applied                 \* the last call of apply_correction: [channel, temperature, raised, value]

calVars == <<calibration_json, cal_pending, cal_call, applied>>

VARIABLES
    \* history
    cfg_call                \* the last observed call of set_sensor_status or
                            \* set_sensor_interval: [op, channel, ret]

chanVars == <<cfg_call>>

VARIABLES
    \* database_manager.py: the table readings and the queries on it
    readings,               \* the rows of the table, in the order of their ids
    db_now,                 \* the wall clock insert_reading stamps a row with
    db_type,                \* the backend in use: "sqlite" or "postgresql"
    \* history
    latest,                 \* the rows the last get_latest_readings has returned
    queried                 \* TRUE: get_latest_readings was the last operation on the table

storeVars == <<readings, db_now, db_type, latest, queried>>

VARIABLES
    \* database_manager.py: DatabaseManager
    mgr_db,                 \* self.db: [kind, open], the instance and whether its connections are open
    self_db_type,           \* self.db_type
    config_database_type,   \* config.json: database.type
    POSTGRES_AVAILABLE,     \* psycopg2 could be imported
    \* history
    switch_call,            \* the last call of switch_database: [db_type, ret]
    routed                  \* the last insert_reading through the manager: [n, targets, raised]

mgrVars == <<mgr_db, self_db_type, config_database_type, POSTGRES_AVAILABLE,
             switch_call, routed>>

VARIABLES
    \* history of the dispatcher's worker
    checked,                \* the results of the last observed connectivity check
    taken                   \* the alert of the last observed delivery attempt, after send_email

VARIABLES
    \* the CPU temperature monitor of the dispatcher
    consecutive_temp_warnings,  \* EmailNotificationSystem.consecutive_temp_warnings
    cpu_temps                   \* history: the valid readings check_cpu_temperature has seen

cpuVars == <<consecutive_temp_warnings, cpu_temps>>

VARIABLES
    \* the bytes of queued_alerts.json and the call that rewrites them
    queue_torn,             \* the file exists and does not hold a complete JSON document
    save_call               \* save_alert_to_file in progress: pc, old and new content

diskVars == <<queue_torn, save_call>>

watchVars == <<checked, taken, cpuVars, diskVars>>

\* The components other than the scheduler and the dispatcher.
VARIABLES
    \* the maintenance pass of log_temperatures (data_logger.py:109-121)
    maint_pc,               \* the step the pass is at, or "idle"
    maint_ran,              \* history: the steps of the pass in progress that have failed
    last_cleanup_time,      \* last_cleanup_time, in hours
    passes                  \* history: the number of passes begun

maintVars == <<maint_pc, maint_ran, last_cleanup_time, passes>>

VARIABLES
    \* the callers of TextFileLogger.log_reading and its lock
    text_lock,              \* TextFileLogger._lock: the caller that holds it, or None
    wpc,                    \* caller -> its place in log_reading
    wts                     \* caller -> the timestamp it has passed

lockVars == <<text_lock, wpc, wts>>

VARIABLES
    \* the worker threads of EmailNotificationSystem (notification_system.py:144-145)
    is_running,             \* EmailNotificationSystem.is_running
    worker_thread,          \* EmailNotificationSystem.worker_thread: a worker, or None
    nw_pc,                  \* worker -> its place in worker_loop
    nw_alert,               \* worker -> the alert it has taken from the queue
    stop_pc,                \* the place of a call of stop()
    left_behind             \* history: the workers alive when a stop() returned

lifeVars == <<is_running, worker_thread, nw_pc, nw_alert, stop_pc, left_behind>>

restVars == <<textVars, calVars, chanVars, storeVars, mgrVars, maintVars, lockVars, lifeVars>>

\* The state of the components other than the scheduler and the dispatcher.
auxVars == <<restVars, watchVars>>

\* What a step of one component leaves alone.
\* The actions of the text log store say nothing about the maintenance pass:
\* a specification runs them inside a pass or leaves the pass alone.
besidesText == <<coreVars, alertVars, calVars, chanVars, storeVars, mgrVars, watchVars,
                 lockVars, lifeVars>>
besidesCal == <<lockVars, lifeVars, coreVars, alertVars, textVars, chanVars, storeVars, mgrVars, watchVars,
               maintVars>>
besidesChan == <<lockVars, lifeVars, alertVars, textVars, calVars, storeVars, mgrVars, watchVars,
               maintVars>>
besidesStore == <<lockVars, lifeVars, coreVars, alertVars, textVars, calVars, chanVars, mgrVars, watchVars,
               maintVars>>
besidesMgr == <<lockVars, lifeVars, coreVars, alertVars, textVars, calVars, chanVars, storeVars, watchVars,
               maintVars>>

\* ------------------------------------------------------------------------
\* Helpers
\* ------------------------------------------------------------------------
\* Thread.is_alive(): true from start() until the target function has returned.
is_alive(t) == tstate[t] = "alive"

AliveThreads == {t \in Threads : is_alive(t)}

\* data_logger.py:154-157
is_logging == logging_thread # None /\ is_alive(logging_thread)

\* data_logger.py:76: last_log_time = {i: 0 ...}
FreshLastLog == [i \in Channels |-> 0]

AllIdle == \A c \in Callers : cpc[c] = "idle"

\* A Thread object that is neither running nor referenced by the module or by
\* a joining caller is garbage; th.Thread(...) may take its place.
FreeThreads ==
    {t \in Threads : /\ tstate[t] \in {"unborn", "dead"}
                     /\ logging_thread # t
                     /\ \A c \in Callers : cjoin[c] # t}

NewThread == CHOOSE t \in FreeThreads : \A u \in FreeThreads : t <= u

Return(c, tag) ==
    /\ cpc' = [cpc EXCEPT ![c] = "idle"]
    /\ cret' = [cret EXCEPT ![c] = tag]

\* ------------------------------------------------------------------------
\* start_logging_thread (data_logger.py:132-141)
\* ------------------------------------------------------------------------
\* A caller enters start_logging_thread.  The guard keeps the number of
\* Thread objects within MaxThreads.
StartCall(c) ==
    /\ cpc[c] = "idle"
    /\ Cardinality({d \in Callers : cpc[d] \in {"s134", "s135", "s136"}}) < Cardinality(FreeThreads)
    /\ cpc' = [cpc EXCEPT ![c] = "s134"]
    /\ cret' = [cret EXCEPT ![c] = "none"]
    /\ UNCHANGED <<alertVars, auxVars, cjoin, schedVars, threadVars, envVars, sinkVars>>

\* Faulty variant: start_logging_thread without the check of line 134.
StartMayProceed_always == TRUE

\* line 134: if logging_thread is None or not logging_thread.is_alive()
StartMayProceed == logging_thread = None \/ ~is_alive(logging_thread)

Start134(c) ==
    /\ cpc[c] = "s134"
    /\ IF StartMayProceed
         THEN cpc' = [cpc EXCEPT ![c] = "s135"] /\ cret' = cret
         ELSE Return(c, "start_F")          \* lines 140-141
    /\ UNCHANGED <<alertVars, auxVars, cjoin, schedVars, threadVars, envVars, sinkVars>>

\* line 135: logging_stop_event.clear()
Start135(c) ==
    /\ cpc[c] = "s135"
    /\ logging_stop_event' = FALSE
    /\ cpc' = [cpc EXCEPT ![c] = "s136"]
    /\ UNCHANGED <<alertVars, auxVars, logging_thread, sensor_active_status, sensor_intervals,
                   cjoin, cret, threadVars, envVars, sinkVars>>

\* line 136: logging_thread = th.Thread(target=log_temperatures, daemon=True)
Start136(c) ==
    /\ cpc[c] = "s136"
    /\ FreeThreads # {}
    /\ logging_thread' = NewThread
    /\ tstate' = [tstate EXCEPT ![NewThread] = "created"]
    /\ cpc' = [cpc EXCEPT ![c] = "s137"]
    /\ UNCHANGED <<alertVars, auxVars, logging_stop_event, sensor_active_status, sensor_intervals,
                   tpc, ti, current_time, last_log_time, cjoin, cret, envVars, sinkVars>>

\* lines 137-139: logging_thread.start(); return True.  The global is read
\* again: it may by now be None (AttributeError) or name a Thread that was
\* already started (RuntimeError).
Start137(c) ==
    /\ cpc[c] = "s137"
    /\ IF logging_thread # None /\ tstate[logging_thread] = "created"
         THEN /\ tstate' = [tstate EXCEPT ![logging_thread] = "alive"]
              /\ tpc' = [tpc EXCEPT ![logging_thread] = "while"]
              /\ last_log_time' = [last_log_time EXCEPT ![logging_thread] = FreshLastLog]
              /\ Return(c, "start_T")
         ELSE /\ Return(c, "raised")
              /\ UNCHANGED <<tstate, tpc, last_log_time>>
    /\ UNCHANGED <<alertVars, auxVars, ti, current_time, cjoin, schedVars, envVars, sinkVars>>

\* ------------------------------------------------------------------------
\* stop_logging_thread (data_logger.py:143-152)
\* ------------------------------------------------------------------------
StopCall(c) ==
    /\ cpc[c] = "idle"
    /\ cpc' = [cpc EXCEPT ![c] = "p145"]
    /\ cret' = [cret EXCEPT ![c] = "none"]
    /\ UNCHANGED <<alertVars, auxVars, cjoin, schedVars, threadVars, envVars, sinkVars>>

\* line 145: if logging_thread is not None and logging_thread.is_alive()
Stop145(c) ==
    /\ cpc[c] = "p145"
    /\ IF is_logging
         THEN cpc' = [cpc EXCEPT ![c] = "p146"] /\ cret' = cret
         ELSE Return(c, "stop_F")           \* lines 151-152
    /\ UNCHANGED <<alertVars, auxVars, cjoin, schedVars, threadVars, envVars, sinkVars>>

\* line 146: logging_stop_event.set()
Stop146(c) ==
    /\ cpc[c] = "p146"
    /\ logging_stop_event' = TRUE
    /\ cpc' = [cpc EXCEPT ![c] = "p147"]
    /\ UNCHANGED <<alertVars, auxVars, logging_thread, sensor_active_status, sensor_intervals,
                   cjoin, cret, threadVars, envVars, sinkVars>>

\* line 147, the call: logging_thread.join() reads the global again; None
\* gives AttributeError, a Thread that was never started RuntimeError.
Stop147(c) ==
    /\ cpc[c] = "p147"
    /\ IF logging_thread # None /\ tstate[logging_thread] # "created"
         THEN /\ cjoin' = [cjoin EXCEPT ![c] = logging_thread]
              /\ cpc' = [cpc EXCEPT ![c] = "join"]
              /\ cret' = cret
         ELSE /\ Return(c, "raised")
              /\ cjoin' = cjoin
    /\ UNCHANGED <<alertVars, auxVars, schedVars, threadVars, envVars, sinkVars>>

\* Faulty variant: stop_logging_thread without waiting in join().
JoinMayReturn_nowait(c) == TRUE

\* Thread.join() returns once the joined thread is no longer alive.
JoinMayReturn(c) == ~is_alive(cjoin[c])

\* line 147, the wait
StopJoin(c) ==
    /\ cpc[c] = "join"
    /\ JoinMayReturn(c)
    /\ cpc' = [cpc EXCEPT ![c] = "p148"]
    /\ cjoin' = [cjoin EXCEPT ![c] = None]
    /\ UNCHANGED <<alertVars, auxVars, cret, schedVars, threadVars, envVars, sinkVars>>

\* lines 148-150: logging_thread = None; return True
Stop148(c) ==
    /\ cpc[c] = "p148"
    /\ logging_thread' = None
    /\ Return(c, "stop_T")
    /\ UNCHANGED <<alertVars, auxVars, logging_stop_event, sensor_active_status, sensor_intervals,
                   cjoin, threadVars, envVars, sinkVars>>

\* ------------------------------------------------------------------------
\* set_sensor_status, set_sensor_interval (data_logger.py:54-69)
\* ------------------------------------------------------------------------
\* The setters say nothing about cfg_call: a specification either observes
\* their calls (SetStatusCall, SetIntervalCall) or leaves cfg_call alone.
\* Faulty variant: every channel is taken as known.
set_sensor_status_returns_always(channel) == TRUE

\* The value set_sensor_status returns (lines 55, 58, 59).
set_sensor_status_returns(channel) == channel \in DOMAIN sensor_active_status

set_sensor_status(channel, status) ==
    /\ IF set_sensor_status_returns(channel)
         THEN sensor_active_status' = [sensor_active_status EXCEPT ![channel] = status]
         ELSE sensor_active_status' = sensor_active_status      \* return False
    /\ UNCHANGED <<besidesChan, logging_thread, logging_stop_event, sensor_intervals,
                   threadVars, callVars, envVars, sinkVars>>

\* The value set_sensor_interval returns (lines 65, 68, 69).
set_sensor_interval_returns(channel) == channel \in DOMAIN sensor_intervals

set_sensor_interval(channel, interval) ==
    /\ IF set_sensor_interval_returns(channel)
         THEN sensor_intervals' = [sensor_intervals EXCEPT ![channel] = int(interval)]
         ELSE sensor_intervals' = sensor_intervals              \* return False
    /\ UNCHANGED <<besidesChan, logging_thread, logging_stop_event, sensor_active_status,
                   threadVars, callVars, envVars, sinkVars>>

\* A call of a setter, observed with its result.
SetStatusCall(channel, status) ==
    /\ set_sensor_status(channel, status)
    /\ cfg_call' = [op |-> "set_sensor_status", channel |-> channel,
                    ret |-> set_sensor_status_returns(channel)]

SetIntervalCall(channel, interval) ==
    /\ set_sensor_interval(channel, interval)
    /\ cfg_call' = [op |-> "set_sensor_interval", channel |-> channel,
                    ret |-> set_sensor_interval_returns(channel)]

\* No call of a setter has been observed.
InitChan == cfg_call = [op |-> "none", channel |-> None, ret |-> FALSE]

\* ------------------------------------------------------------------------
\* Channel driver (sm_tc/__init__.py) and calibration (calibration.py)
\* ------------------------------------------------------------------------
\* SMtc.connect (sm_tc/__init__.py:107-120): the bus answers or it does not.
connect(ok) ==
    /\ daq_connected' = ok
    /\ UNCHANGED <<alertVars, auxVars, now, cal_bad, db_up, text_up, schedVars, threadVars, callVars, sinkVars>>

\* SMtc.disconnect (sm_tc/__init__.py:122-125)
disconnect ==
    /\ daq_connected' = FALSE
    /\ UNCHANGED <<alertVars, auxVars, now, cal_bad, db_up, text_up, schedVars, threadVars, callVars, sinkVars>>

\* SMtc.get_temp (sm_tc/__init__.py:165-179): None when not connected; a bus
\* error marks the board disconnected and also yields None.  busOk is the
\* outcome of the I2C transfer.  The result is TRUE when a value is returned.
get_temp_yields(busOk) == daq_connected /\ busOk

\* apply_correction (calibration.py:129-155) raises when the stored profile
\* of the channel is malformed (slope/offset that is not a number, an entry
\* that is neither a number nor a dict).
apply_correction_raises(i) == i \in cal_bad

\* The wall clock advances.
Tick ==
    /\ now < T0 + MaxTicks
    /\ now' = now + 1
    /\ UNCHANGED <<alertVars, auxVars, daq_connected, cal_bad, db_up, text_up, schedVars, threadVars, callVars, sinkVars>>

\* ------------------------------------------------------------------------
\* log_temperatures (data_logger.py:74-130), run by thread t
\* ------------------------------------------------------------------------
ThreadExit(t) ==
    /\ tstate' = [tstate EXCEPT ![t] = "dead"]
    /\ tpc' = [tpc EXCEPT ![t] = "none"]
    /\ ti' = [ti EXCEPT ![t] = 0]
    /\ current_time' = [current_time EXCEPT ![t] = 0]
    /\ last_log_time' = [last_log_time EXCEPT ![t] = FreshLastLog]

\* Faulty variant: a loop that never looks at logging_stop_event.
StopRequested_never == FALSE

\* lines 79 and 83: logging_stop_event.is_set()
StopRequested == logging_stop_event

\* line 79: while not logging_stop_event.is_set(); lines 81-82: a new tick
\* starts with current_time = time.time() and i = 1; line 130: the thread ends.
LoopWhile(t) ==
    /\ is_alive(t) /\ tpc[t] = "while"
    /\ IF StopRequested
         THEN ThreadExit(t)
         ELSE /\ tpc' = [tpc EXCEPT ![t] = "for"]
              /\ ti' = [ti EXCEPT ![t] = 1]
              /\ current_time' = [current_time EXCEPT ![t] = now]
              /\ UNCHANGED <<tstate, last_log_time>>
    /\ UNCHANGED <<alertVars, auxVars, schedVars, callVars, envVars, sinkVars>>

\* line 88: the channel is due
IsDue(t, i) == current_time[t] - last_log_time[t][i] >= sensor_intervals[i]

\* lines 82-88: next channel of the tick; stop requested -> break; enabled
\* and due -> read it; otherwise skip it.  After the last channel (and after
\* break) the tick ends with the sleep of lines 124-125 and returns to the
\* while test.
LoopFor(t) ==
    /\ is_alive(t) /\ tpc[t] = "for"
    /\ IF ti[t] > NUMBER_OF_CHANNELS \/ StopRequested
         THEN /\ tpc' = [tpc EXCEPT ![t] = "while"]
              /\ ti' = [ti EXCEPT ![t] = 0]
              /\ current_time' = [current_time EXCEPT ![t] = 0]
         ELSE /\ IF sensor_active_status[ti[t]] /\ IsDue(t, ti[t])
                   THEN tpc' = [tpc EXCEPT ![t] = "read"] /\ ti' = ti
                   ELSE tpc' = tpc /\ ti' = [ti EXCEPT ![t] = @ + 1]
              /\ current_time' = current_time
    /\ UNCHANGED <<alertVars, auxVars, tstate, last_log_time,
                   schedVars, callVars, envVars, sinkVars>>

\* Faulty variant: a read that yields None ends the tick in the handler of
\* line 127 and leaves the channel enabled.
OnNoValue_raise(t) ==
    /\ sensor_active_status' = sensor_active_status
    /\ tpc' = [tpc EXCEPT ![t] = "except"]
    /\ ti' = ti

\* What the loop does with a channel whose read yielded None (lines 105-107):
\* the channel is disabled and the for loop goes on with the next channel.
OnNoValue(t) ==
    /\ sensor_active_status' = [sensor_active_status EXCEPT ![ti[t]] = FALSE]
    /\ tpc' = [tpc EXCEPT ![t] = "for"]
    /\ ti' = [ti EXCEPT ![t] = @ + 1]

\* lines 89-91 and 105-107: temp = daq.get_temp(i); a value is corrected
\* (apply_correction may raise, which ends the tick at line 127).
LoopRead(t, busOk) ==
    /\ is_alive(t) /\ tpc[t] = "read"
    /\ daq_connected' = get_temp_yields(busOk)
    /\ IF get_temp_yields(busOk)
         THEN /\ tpc' = [tpc EXCEPT ![t] = IF apply_correction_raises(ti[t]) THEN "except" ELSE "text"]
              /\ UNCHANGED <<ti, sensor_active_status>>
         ELSE OnNoValue(t)
    /\ UNCHANGED <<alertVars, auxVars, tstate, current_time, last_log_time,
                   logging_thread, logging_stop_event, sensor_intervals,
                   callVars, now, cal_bad, db_up, text_up, sinkVars>>

\* Faulty variant: log_reading without its try/except.
log_reading_raises_uncaught == ~text_up

\* TextFileLogger.log_reading (text_file_logger.py:107-119): open and write
\* under the lock; any failure is caught and printed inside the method.  The
\* definition tells whether an error of the text sink reaches the caller.
log_reading_raises == FALSE

log_reading_lines(t) ==
    IF text_up THEN text_log \cup {<<ti[t], current_time[t]>>} ELSE text_log

\* lines 94-99: text_file_logger.log_reading(...)
LoopText(t) ==
    /\ is_alive(t) /\ tpc[t] = "text"
    /\ text_log' = log_reading_lines(t)
    /\ tpc' = [tpc EXCEPT ![t] = IF log_reading_raises THEN "except" ELSE "db"]
    /\ UNCHANGED <<alertVars, auxVars, tstate, ti, current_time, last_log_time,
                   schedVars, callVars, envVars, db_rows>>

\* SQLiteDatabase.insert_reading (database_manager.py:86-93): execute/commit
\* raise when the store is unavailable.  A row is identified by the Reading
\* it stores (channel and tick); its own timestamp column is not modelled.
\* DualDatabaseManager.insert_reading (lines 274-290) catches the exceptions
\* of both backends and prints them: with "both" nothing reaches the caller.
insert_reading_raises == ~db_up /\ mgr_db.kind # "both"

\* The rows of the store after db_manager.insert_reading(...).
insert_reading_rows(t) ==
    IF db_up THEN db_rows \cup {<<ti[t], current_time[t]>>} ELSE db_rows

\* lines 102-104: db_manager.insert_reading(...); last_log_time[i] =
\* current_time.  An exception of the insert leaves the for loop for the
\* handler of line 127.
LoopDb(t) ==
    /\ is_alive(t) /\ tpc[t] = "db"
    /\ IF insert_reading_raises
         THEN /\ tpc' = [tpc EXCEPT ![t] = "except"]
              /\ UNCHANGED <<db_rows, last_log_time, ti>>
         ELSE /\ db_rows' = insert_reading_rows(t)
              /\ last_log_time' = [last_log_time EXCEPT ![t][ti[t]] = current_time[t]]
              /\ ti' = [ti EXCEPT ![t] = @ + 1]
              /\ tpc' = [tpc EXCEPT ![t] = "for"]
    /\ UNCHANGED <<alertVars, auxVars, tstate, current_time, schedVars, callVars, envVars, text_log>>

\* Faulty variant: the exception ends the thread.
LoopExcept_exit(t) ==
    /\ is_alive(t) /\ tpc[t] = "except"
    /\ ThreadExit(t)
    /\ UNCHANGED <<alertVars, auxVars, schedVars, callVars, envVars, sinkVars>>

\* lines 127-129: except Exception: print, time.sleep(10), back to the while test
LoopExcept(t) ==
    /\ is_alive(t) /\ tpc[t] = "except"
    /\ tpc' = [tpc EXCEPT ![t] = "while"]
    /\ ti' = [ti EXCEPT ![t] = 0]
    /\ current_time' = [current_time EXCEPT ![t] = 0]
    /\ UNCHANGED <<alertVars, auxVars, tstate, last_log_time,
                   schedVars, callVars, envVars, sinkVars>>

\* line 129: time.sleep(10) of the handler; the thread wakes ten seconds
\* after the tick began, or later.
PaceSleep(t) ==
    /\ is_alive(t) /\ tpc[t] = "except"
    /\ now < current_time[t] + EXCEPT_SLEEP_SECONDS
    /\ current_time[t] + EXCEPT_SLEEP_SECONDS <= MaxSeconds
    /\ now' = current_time[t] + EXCEPT_SLEEP_SECONDS
    /\ UNCHANGED <<alertVars, auxVars, daq_connected, cal_bad, db_up, text_up, schedVars,
                   threadVars, callVars, sinkVars>>

\* The handler returns to the while test when its sleep is over.
PaceExcept(t) ==
    /\ now >= current_time[t] + EXCEPT_SLEEP_SECONDS
    /\ LoopExcept(t)

\* The wall clock of the paced loop advances.
PaceTick ==
    /\ now + TickSeconds <= MaxSeconds
    /\ now' = now + TickSeconds
    /\ UNCHANGED <<alertVars, auxVars, daq_connected, cal_bad, db_up, text_up, schedVars,
                   threadVars, callVars, sinkVars>>

LoopStep(t) ==
    \/ LoopWhile(t)
    \/ LoopFor(t)
    \/ \E busOk \in BOOLEAN : LoopRead(t, busOk)
    \/ LoopText(t)
    \/ LoopDb(t)
    \/ LoopExcept(t)

\* ------------------------------------------------------------------------
\* Alert dispatcher (notification_system.py)
\* ------------------------------------------------------------------------
\* Titles raised by the monitors (lines 588-597, 611-619).
AlertTitles == {"Low Disk Space", "Temperature Logging Stopped"}

\* Alert(...) of create_alert, lines 222-228: the fields the dispatcher
\* compares.
NewAlert(title) == [title |-> title, timestamp |-> wall_minutes]

\* is_duplicate_alert, lines 237-247: looks at sent_alerts only.
is_duplicate_alert(alert) ==
    \E k \in DOMAIN sent_alerts :
        /\ sent_alerts[k].title = alert.title
        /\ sent_alerts[k].timestamp > wall_minutes - duplicate_suppression_minutes

\* create_alert, lines 219-235: the queue after the call.
create_alert(q, title) ==
    IF is_duplicate_alert(NewAlert(title)) THEN q ELSE Append(q, NewAlert(title))

\* datetime.isoformat() and datetime.fromisoformat(): the text form of a
\* timestamp and its parse.
isoformat(ts) == <<"iso", ts>>

fromisoformat(text) == text[2]

\* alert_dict of save_alert_to_file, lines 521-527.
alert_dict(alert) == [title |-> alert.title, timestamp |-> isoformat(alert.timestamp)]

\* Alert(...) of process_queued_alerts, lines 549-555.
alert_of_dict(d) == [title |-> d.title, timestamp |-> fromisoformat(d.timestamp)]

\* save_alert_to_file, lines 511-535: the file after the call.
save_alert_to_file(file, alert) == Append(file, alert_dict(alert))

\* The alerts a file holds, in the order of the file.
LoadedAlerts(file) == [k \in DOMAIN file |-> alert_of_dict(file[k])]

\* Faulty variant: the alerts of the file are queued last saved first.
process_queued_alerts_reversed(q) ==
    q \o [k \in DOMAIN queued_alerts |->
             alert_of_dict(queued_alerts[Len(queued_alerts) + 1 - k])]

\* process_queued_alerts, lines 537-563: the queue after the call; the file
\* is removed.
process_queued_alerts(q) == q \o LoadedAlerts(queued_alerts)

\* A monitor or the API calls create_alert(level, title, message).
RaiseAlert(title) ==
    /\ Len(accepted) < MaxAlerts
    /\ alert_queue' = create_alert(alert_queue, title)
    /\ accepted' = create_alert(accepted, title)
    /\ UNCHANGED <<sent_alerts, queued_alerts, internet_connected, board_connected,
                   email_enabled, wall_minutes>>
    /\ UNCHANGED <<coreVars, auxVars>>

\* send_email, lines 249-293, for the alert the worker has taken from the
\* queue: the list of delivered alerts after the call.
send_email(alert, smtpOk) ==
    IF email_enabled /\ smtpOk THEN Append(sent_alerts, alert) ELSE sent_alerts

\* worker_loop, lines 638-639: alert_queue.get() and send_email(alert); the
\* result of send_email is dropped.  The step says nothing about taken: a
\* specification either observes the attempt (WorkerObserved) or leaves
\* taken alone.
WorkerSend(smtpOk) ==
    /\ alert_queue # <<>>
    /\ alert_queue' = Tail(alert_queue)
    /\ sent_alerts' = send_email(Head(alert_queue), smtpOk)
    /\ UNCHANGED <<queued_alerts, internet_connected, board_connected, email_enabled,
                   wall_minutes, accepted>>
    /\ UNCHANGED <<coreVars, restVars, checked, cpuVars, diskVars>>

\* The keys of the dictionary SMtc.get_board_info returns
\* (sm_tc/__init__.py:127-133).
get_board_info == {"connected", "hw_rev_major", "hw_rev_minor"}

\* check_board_connectivity, lines 79-96: the board counts as connected when
\* the dictionary has the key 'board_info'.
check_board_connectivity == "board_info" \in get_board_info

\* Faulty variant: the restoration is reported by every check that finds
\* the connection up.
internet_restored_level(internet_now) == internet_now

\* Lines 495-497: the connection was down and is up.
internet_restored(internet_now) == internet_now /\ ~internet_connected

\* The alerts check_connectivity creates on the queue q, lines 444-505.  On
\* a loss of the Internet connection the positional Alert(...) of lines
\* 479-488 passes timestamp twice and raises TypeError, which the worker
\* loop catches at line 660: save_alert_to_file at line 491 is not reached.
connectivity_alerts(q, board_now, internet_now) ==
    LET board_changed == board_now # board_connected
        q1 == IF board_changed /\ ~board_now
                THEN create_alert(q, "SMTC Board Disconnected") ELSE q
        q2 == IF board_changed /\ board_now /\ ~board_connected
                THEN create_alert(q1, "SMTC Board Reconnected") ELSE q1
    IN  IF internet_restored(internet_now)
          THEN create_alert(q2, "Internet Connection Restored")
          ELSE q2

\* check_connectivity, lines 439-509, with get_connectivity_status, lines
\* 98-130.  internet_now is the outcome of check_internet_connectivity.  On
\* a file that does not parse, json.load of process_queued_alerts (line 547)
\* raises, the handler of line 562 prints, and the file stays.  The
\* step says nothing about checked: a specification either observes the
\* check (CheckObserved) or leaves checked alone.
check_connectivity(internet_now) ==
    /\ Len(accepted) < MaxAlerts
    /\ internet_connected' = internet_now
    /\ board_connected' = check_board_connectivity
    /\ accepted' = connectivity_alerts(accepted, check_board_connectivity, internet_now)
    /\ IF internet_restored(internet_now) /\ ~queue_torn
         THEN /\ alert_queue' = process_queued_alerts(
                     connectivity_alerts(alert_queue, check_board_connectivity, internet_now))
              /\ queued_alerts' = <<>>
         ELSE /\ alert_queue' =
                     connectivity_alerts(alert_queue, check_board_connectivity, internet_now)
              /\ UNCHANGED queued_alerts
    /\ UNCHANGED <<sent_alerts, email_enabled, wall_minutes>>
    /\ UNCHANGED <<coreVars, restVars, taken, cpuVars, diskVars>>

\* A connectivity check, observed with its results.
CheckObserved(internet_now) ==
    /\ check_connectivity(internet_now)
    /\ checked' = [internet |-> internet_now, board |-> check_board_connectivity]

\* A delivery attempt, observed: the worker's alert after send_email, which
\* sets sent on success (line 286) and counts a retry when the delivery
\* raises (line 292), not when e-mail is disabled (line 253).
WorkerObserved(smtpOk) ==
    /\ WorkerSend(smtpOk)
    /\ taken' = [alert |-> Head(alert_queue),
                 sent |-> email_enabled /\ smtpOk,
                 retry_count |-> IF email_enabled /\ ~smtpOk THEN 1 ELSE 0]

\* No save_alert_to_file is in progress.
NoSave == [pc |-> "idle", old |-> <<>>, new |-> <<>>]

\* save_alert_to_file, lines 516-530: the file is read and the new list is
\* built.  On a file that does not parse json.load raises at line 519, the
\* handler of line 534 prints, and the alert is not saved.
SaveLoad(title) ==
    /\ save_call.pc \in {"idle", "killed"}
    /\ Len(queued_alerts) < MaxSaved
    /\ save_call' = IF queue_torn
                      THEN NoSave
                      ELSE [pc |-> "loaded", old |-> queued_alerts,
                            new |-> save_alert_to_file(queued_alerts, NewAlert(title))]
    /\ UNCHANGED <<alertVars, coreVars, restVars, checked, taken, cpuVars, queue_torn>>

\* Line 532, open(alert_file, 'w'): the file is cut to no bytes, which is
\* not a JSON document.
SaveOpen ==
    /\ save_call.pc = "loaded"
    /\ save_call' = [save_call EXCEPT !.pc = "opened"]
    /\ queue_torn' = TRUE
    /\ UNCHANGED <<alertVars, coreVars, restVars, checked, taken, cpuVars>>

\* Line 533, json.dump(alerts, f) and the close of the file: the new list
\* is on disk.
SaveWrite ==
    /\ save_call.pc = "opened"
    /\ save_call' = NoSave
    /\ queued_alerts' = save_call.new
    /\ queue_torn' = FALSE
    /\ UNCHANGED <<alert_queue, sent_alerts, internet_connected, board_connected,
                   email_enabled, wall_minutes, accepted>>
    /\ UNCHANGED <<coreVars, restVars, checked, taken, cpuVars>>

\* The process is killed and started again: the objects in memory are the
\* ones __init__ builds (lines 45-47, 141, 155), the file is as the kill
\* has left it.
KillDispatcher ==
    /\ save_call.pc # "killed"
    /\ save_call' = [save_call EXCEPT !.pc = "killed"]
    /\ alert_queue' = <<>>
    /\ sent_alerts' = <<>>
    /\ internet_connected' = TRUE
    /\ board_connected' = FALSE
    /\ consecutive_temp_warnings' = 0
    /\ UNCHANGED <<queued_alerts, queue_torn, email_enabled, wall_minutes, accepted>>
    /\ UNCHANGED <<coreVars, restVars, checked, taken, cpu_temps>>

\* Readings of get_cpu_temperature (data_logger.py:37-46): -1 when the
\* sensor cannot be read, else the temperature in degrees.
CpuReadings == {-1, 60, 75, 85}

\* Faulty variant: the warning is raised by the first high reading.
warning_due_at_once(count) == count >= 1

\* Line 424: the warning is raised from the third high reading in a row on.
warning_due(count) == count >= 3

\* The counter after a valid reading, lines 415, 421, 435-437.
warnings_after(temp) ==
    IF temp >= temp_warning_threshold THEN consecutive_temp_warnings + 1 ELSE 0

\* The alerts check_cpu_temperature creates on the queue q, lines 404-433.
cpu_alerts(q, temp) ==
    IF temp >= temp_critical_threshold
      THEN create_alert(q, "Critical CPU Temperature")
      ELSE IF temp >= temp_warning_threshold /\ warning_due(warnings_after(temp))
             THEN create_alert(q, "High CPU Temperature")
             ELSE q

\* check_cpu_temperature, lines 389-437, with the reading temp.  A reading
\* of 0 or less counts as invalid (line 399) and leaves everything as it is.
check_cpu_temperature(temp) ==
    /\ Len(accepted) < MaxAlerts
    /\ Len(cpu_temps) < MaxReadings
    /\ IF temp <= 0
         THEN UNCHANGED <<alert_queue, accepted, cpuVars>>
         ELSE /\ alert_queue' = cpu_alerts(alert_queue, temp)
              /\ accepted' = cpu_alerts(accepted, temp)
              /\ consecutive_temp_warnings' = warnings_after(temp)
              /\ cpu_temps' = Append(cpu_temps, temp)
    /\ UNCHANGED <<sent_alerts, queued_alerts, internet_connected, board_connected,
                   email_enabled, wall_minutes>>
    /\ UNCHANGED <<coreVars, restVars, checked, taken, diskVars>>

\* Time passes for the dispatcher.
AlertTick ==
    /\ wall_minutes < MaxMinutes
    /\ wall_minutes' = wall_minutes + TickMinutes
    /\ UNCHANGED <<alert_queue, sent_alerts, queued_alerts, internet_connected,
                   board_connected, email_enabled, accepted>>
    /\ UNCHANGED <<coreVars, auxVars>>

\* EmailNotificationSystem.__init__, lines 135-156, and
\* ConnectivityMonitor.__init__, line 46; no queued_alerts.json exists.
InitDispatcher ==
    /\ alert_queue = <<>>
    /\ sent_alerts = <<>>
    /\ internet_connected = TRUE
    /\ board_connected = FALSE
    /\ email_enabled \in BOOLEAN
    /\ wall_minutes = 0
    /\ accepted = <<>>

InitAlerts ==
    /\ InitDispatcher
    /\ queued_alerts = <<>>

\* ------------------------------------------------------------------------
\* Text log store (text_file_logger.py)
\* ------------------------------------------------------------------------
\* The header line (line 88) and the data line of a reading (line 112).
Header == <<"header", 0>>

DataLine(ts) == <<"data", ts>>

\* _get_raw_filename, lines 58-62: '%Y-%m-%d_%H' of the timestamp.
get_raw_filename(ts) == ts

\* The date of a timestamp, and the names '%Y-%m-%d_{hour:02d}' of a date.
DateOf(ts) == ts \div HOURS_PER_DAY

RawNamesOf(date) == {n \in Instants : DateOf(n) = date}

\* datetime.strptime(name, ...) of lines 181, 196 and 216 succeeds.
Parses(name) == name >= 0

\* _ensure_raw_file_open, lines 70-89: the name the handle is open on after
\* the call.  _current_hour changes together with _current_raw_filename.
ensure_raw_file_open(filename) ==
    IF current_raw_filename # filename THEN filename ELSE current_raw_file

\* Faulty variant: the header is written at every open.
OpenedFile_always_header(filename) ==
    IF current_raw_filename # filename
      THEN Append(raw_dir[filename], Header)
      ELSE raw_dir[filename]

\* Lines 87-89: the file after the open; the header is written when the file
\* is empty.
OpenedFile(filename) ==
    IF current_raw_filename # filename /\ raw_dir[filename] = Absent
      THEN <<Header>>
      ELSE raw_dir[filename]

\* Faulty variant: the new file is opened with the old one still open.
handles_after_open_only(filename) ==
    IF current_raw_filename # filename
      THEN open_handles \cup {filename}
      ELSE open_handles

\* Lines 75-82: the open files after _ensure_raw_file_open; the current one
\* is closed, if there is one, before the new one is opened.
handles_after(filename) ==
    IF current_raw_filename # filename
      THEN (IF current_raw_file # None THEN {} ELSE open_handles) \cup {filename}
      ELSE open_handles

\* The number of log_reading calls so far.
RECURSIVE TotalLogged(_)
TotalLogged(S) ==
    IF S = {} THEN 0
    ELSE LET n == CHOOSE x \in S : TRUE
         IN  logged[n] + TotalLogged(S \ {n})

\* log_reading, lines 91-119, with timestamp = now as the scheduler passes
\* it (data_logger.py:94-99).  A write through a handle that is None or
\* whose file is gone raises or is lost; the exception is caught at line 118.
log_reading ==
    LET ts == fs_now
        filename == get_raw_filename(ts)
        handle == ensure_raw_file_open(filename)
    IN  /\ compress_pc = None
        /\ TotalLogged(Instants) < MaxWrites
        /\ current_raw_file' = handle
        /\ current_raw_filename' = filename
        /\ raw_dir' = IF handle = filename
                        THEN [raw_dir EXCEPT ![filename] = Append(OpenedFile(filename), DataLine(ts))]
                        ELSE [raw_dir EXCEPT ![filename] = OpenedFile(filename)]
        /\ logged' = [logged EXCEPT ![ts] = @ + 1]
        /\ reopened' = IF current_raw_filename # filename /\ raw_dir[filename] # Absent
                         THEN reopened \cup {filename}
                         ELSE reopened
        /\ open_handles' = handles_after(filename)
        /\ UNCHANGED <<daily_dir, compressed_dir, fs_now, compress_pc>>
        /\ UNCHANGED besidesText

\* close, lines 407-412: the handle is closed and forgotten;
\* _current_raw_filename and _current_hour stay.
close ==
    /\ current_raw_file' = None
    /\ open_handles' = IF current_raw_file # None THEN {} ELSE open_handles
    /\ UNCHANGED <<raw_dir, daily_dir, compressed_dir, current_raw_filename, fs_now,
                   compress_pc, logged, reopened>>
    /\ UNCHANGED besidesText

\* The names of a set, smallest first: sorted(raw_files) of line 154.
RECURSIVE Sorted(_)
Sorted(S) ==
    IF S = {} THEN <<>>
    ELSE LET m == CHOOSE x \in S : \A y \in S : x <= y
         IN  <<m>> \o Sorted(S \ {m})

\* A row with at least four fields (line 159).
ValidRow(line) == line[1] \in {"data", "header"}

\* Faulty variant: the header of an hourly file is copied as a row.
RowsOf_keep_header(file) == SelectSeq(file, ValidRow)

\* Lines 155-161: the rows of one hourly file, its first line skipped.
RowsOf(file) == SelectSeq(Tail(file), ValidRow)

RECURSIVE ConsolidatedRows(_)
ConsolidatedRows(names) ==
    IF names = <<>> THEN <<>>
    ELSE RowsOf(raw_dir[Head(names)]) \o ConsolidatedRows(Tail(names))

\* consolidate_daily_file, lines 121-167, called without a date: yesterday.
consolidate_daily_file ==
    LET date == DateOf(fs_now) - 1
        raw_files == {n \in RawNamesOf(date) : raw_dir[n] # Absent}
    IN  /\ compress_pc = None
        /\ IF raw_files = {}
             THEN daily_dir' = daily_dir
             ELSE daily_dir' = [daily_dir EXCEPT ![date] =
                                   <<Header>> \o ConsolidatedRows(Sorted(raw_files))]
        /\ UNCHANGED <<raw_dir, compressed_dir, current_raw_file, current_raw_filename,
                       fs_now, compress_pc, logged, reopened,
                   open_handles>>
        /\ UNCHANGED besidesText

\* Faulty variant: a name that does not parse is treated as old.
RawExpired_unparsed(name) == fs_now - name > max_raw_files

\* Lines 180-183: the hourly file is older than max_raw_files hours.
RawExpired(name) == Parses(name) /\ fs_now - name > max_raw_files

\* Lines 195-198: the daily file is older than max_daily_files days.
DailyExpired(name) == Parses(name) /\ DateOf(fs_now) - name > max_daily_files

\* cleanup_old_files, lines 169-202.
cleanup_old_files ==
    /\ compress_pc = None
    /\ raw_dir' = [n \in RawNames |-> IF RawExpired(n) THEN Absent ELSE raw_dir[n]]
    /\ daily_dir' = [n \in DayNames |-> IF DailyExpired(n) THEN Absent ELSE daily_dir[n]]
    /\ current_raw_file' =
          IF current_raw_file \in RawNames /\ raw_dir[current_raw_file] # Absent
                                           /\ RawExpired(current_raw_file)
            THEN Orphan
            ELSE current_raw_file
    /\ UNCHANGED <<compressed_dir, current_raw_filename, fs_now, compress_pc, logged, reopened,
                   open_handles>>
    /\ UNCHANGED besidesText

\* Line 218: file_date < now - timedelta(days=compress_after_days).
CompressDue(name) ==
    /\ Parses(name)
    /\ daily_dir[name] # Absent
    /\ name * HOURS_PER_DAY < fs_now - compress_after_days * HOURS_PER_DAY

\* A complete and a truncated gzip archive.
Archive(file) == <<"gz", file>>

Truncated == <<"truncated">>

\* Outcomes of the copy of lines 219-222: it completes, the source cannot be
\* opened, or the copy raises after the archive has been opened for writing.
CopyOutcomes == {"ok", "unopened", "truncated"}

\* Faulty variant: the original is unlinked whatever became of the copy.
AfterCopy_always(name, outcome) == name

\* Where compress_old_files goes on after the copy of lines 219-222: to the
\* unlink of line 224, or, when the copy has raised, out of the loop to the
\* handler of line 229.
AfterCopy(name, outcome) == IF outcome = "ok" THEN name ELSE None

\* compress_old_files, lines 204-229: the copy of one daily file.
CompressCopy(name, outcome) ==
    /\ compress_pc = None
    /\ CompressDue(name)
    /\ compressed_dir' = [compressed_dir EXCEPT ![name] =
                             CASE outcome = "ok" -> Archive(daily_dir[name])
                               [] outcome = "truncated" -> Truncated
                               [] outcome = "unopened" -> @]
    /\ compress_pc' = AfterCopy(name, outcome)
    /\ UNCHANGED <<raw_dir, daily_dir, current_raw_file, current_raw_filename,
                   fs_now, logged, reopened, open_handles>>
    /\ UNCHANGED besidesText

\* compress_old_files, line 224: file_path.unlink().
CompressUnlink ==
    /\ compress_pc # None
    /\ daily_dir' = [daily_dir EXCEPT ![compress_pc] = Absent]
    /\ compress_pc' = None
    /\ UNCHANGED <<raw_dir, compressed_dir, current_raw_file, current_raw_filename,
                   fs_now, logged, reopened, open_handles>>
    /\ UNCHANGED besidesText

\* Time passes to the next instant.
FsTick(t) ==
    /\ t > fs_now
    /\ \A u \in Instants : u > fs_now => t <= u
    /\ fs_now' = t
    /\ UNCHANGED <<raw_dir, daily_dir, compressed_dir, current_raw_file,
                   current_raw_filename, compress_pc, logged, reopened,
                   open_handles>>
    /\ UNCHANGED besidesText

\* The process ends and is started again: TextFileLogger.__init__, lines
\* 48-51; the files stay.
RestartLogger ==
    /\ current_raw_file' = None
    /\ current_raw_filename' = None
    /\ compress_pc' = None
    /\ open_handles' = {}
    /\ UNCHANGED <<raw_dir, daily_dir, compressed_dir, fs_now, logged, reopened>>
    /\ UNCHANGED besidesText

\* ------------------------------------------------------------------------
\* The worker threads of the notification system (notification_system.py)
\* ------------------------------------------------------------------------
\* The threads start() can create, in the order of their creation.
Workers == 1..MaxWorkers

\* What a step of the workers' life leaves alone.
besidesLife == <<coreVars, textVars, calVars, chanVars, storeVars, mgrVars, maintVars,
                 lockVars, watchVars>>

\* No alert held by a worker.
NoAlert == [title |-> "none", timestamp |-> None]

\* The worker is a live thread.
worker_alive(w) == nw_pc[w] \notin {"unborn", "ended"}

\* start, lines 664-674: nothing when is_running is set; otherwise the flag
\* is set and a new worker thread is started.
start ==
    /\ stop_pc = "idle"
    /\ ~is_running
    /\ \E w \in Workers :
          /\ nw_pc[w] = "unborn"
          /\ \A v \in Workers : v < w => nw_pc[v] # "unborn"
          /\ worker_thread' = w
          /\ nw_pc' = [nw_pc EXCEPT ![w] = "test"]
    /\ is_running' = TRUE
    /\ UNCHANGED <<nw_alert, stop_pc, left_behind, alertVars, besidesLife>>

\* stop, lines 678-679: the flag is cleared; when the worker thread is alive
\* the caller joins it.
stop ==
    /\ stop_pc = "idle"
    /\ is_running' = FALSE
    /\ stop_pc' = IF worker_thread # None /\ worker_alive(worker_thread) THEN "join" ELSE "idle"
    /\ UNCHANGED <<worker_thread, nw_pc, nw_alert, left_behind, alertVars, besidesLife>>

\* Line 680, worker_thread.join(timeout=5): the call returns when the worker
\* has ended, or after five seconds, which a delivery in progress can
\* outlast (the SMTP session of send_email, lines 270-283).
stop_return ==
    /\ stop_pc = "join"
    /\ nw_pc[worker_thread] \in {"ended", "deliver"}
    /\ stop_pc' = "idle"
    /\ left_behind' = left_behind \cup {w \in Workers : worker_alive(w)}
    /\ UNCHANGED <<is_running, worker_thread, nw_pc, nw_alert, alertVars, besidesLife>>

\* worker_loop, line 633: while self.is_running.
WorkerTest(w) ==
    /\ nw_pc[w] = "test"
    /\ nw_pc' = [nw_pc EXCEPT ![w] = IF is_running THEN "get" ELSE "ended"]
    /\ UNCHANGED <<is_running, worker_thread, nw_alert, stop_pc, left_behind, alertVars,
                   besidesLife>>

\* Lines 637-641: alert_queue.get(timeout=1) takes the oldest alert, or
\* raises queue.Empty and the loop goes on.
WorkerGet(w) ==
    /\ nw_pc[w] = "get"
    /\ IF alert_queue # <<>>
         THEN /\ alert_queue' = Tail(alert_queue)
              /\ nw_alert' = [nw_alert EXCEPT ![w] = Head(alert_queue)]
              /\ nw_pc' = [nw_pc EXCEPT ![w] = "deliver"]
         ELSE /\ nw_pc' = [nw_pc EXCEPT ![w] = "test"]
              /\ UNCHANGED <<alert_queue, nw_alert>>
    /\ UNCHANGED <<sent_alerts, queued_alerts, internet_connected, board_connected,
                   email_enabled, wall_minutes, accepted>>
    /\ UNCHANGED <<is_running, worker_thread, stop_pc, left_behind, besidesLife>>

\* Line 639, send_email(alert), the end of the delivery.
WorkerDeliver(w, smtpOk) ==
    /\ nw_pc[w] = "deliver"
    /\ sent_alerts' = send_email(nw_alert[w], smtpOk)
    /\ nw_alert' = [nw_alert EXCEPT ![w] = NoAlert]
    /\ nw_pc' = [nw_pc EXCEPT ![w] = "test"]
    /\ UNCHANGED <<alert_queue, queued_alerts, internet_connected, board_connected,
                   email_enabled, wall_minutes, accepted>>
    /\ UNCHANGED <<is_running, worker_thread, stop_pc, left_behind, besidesLife>>

\* ------------------------------------------------------------------------
\* log_reading step by step, called by several threads
\* ------------------------------------------------------------------------
\* The threads that call log_reading.
Writers == 1..NumWriters

\* Lines 101-102: the caller passes a timestamp, the time of its tick; time
\* may pass before it gets the lock.
WCall(w, ts) ==
    /\ wpc[w] = "idle"
    /\ ts = fs_now
    /\ compress_pc = None
    /\ TotalLogged(Instants) + Cardinality({v \in Writers : wpc[v] # "idle"}) < MaxWrites
    /\ wpc' = [wpc EXCEPT ![w] = "wait"]
    /\ wts' = [wts EXCEPT ![w] = ts]
    /\ UNCHANGED <<text_lock, textVars, coreVars, alertVars, calVars, chanVars, storeVars,
                   mgrVars, watchVars, maintVars, lifeVars>>

\* Faulty variant: log_reading without its lock.
lock_free_always(w) == TRUE

\* Line 107, with self._lock: the lock is free.
lock_free(w) == text_lock = None

WAcquire(w) ==
    /\ wpc[w] = "wait"
    /\ lock_free(w)
    /\ text_lock' = w
    /\ wpc' = [wpc EXCEPT ![w] = "ensure"]
    /\ UNCHANGED <<wts, textVars, coreVars, alertVars, calVars, chanVars, storeVars,
                   mgrVars, watchVars, maintVars, lifeVars>>

\* Line 109, self._ensure_raw_file_open(timestamp).
WEnsure(w) ==
    LET filename == get_raw_filename(wts[w])
    IN  /\ wpc[w] = "ensure"
        /\ current_raw_file' = ensure_raw_file_open(filename)
        /\ current_raw_filename' = filename
        /\ raw_dir' = [raw_dir EXCEPT ![filename] = OpenedFile(filename)]
        /\ reopened' = IF current_raw_filename # filename /\ raw_dir[filename] # Absent
                         THEN reopened \cup {filename}
                         ELSE reopened
        /\ open_handles' = handles_after(filename)
        /\ wpc' = [wpc EXCEPT ![w] = "write"]
        /\ UNCHANGED <<daily_dir, compressed_dir, fs_now, compress_pc, logged>>
        /\ UNCHANGED <<text_lock, wts, coreVars, alertVars, calVars, chanVars, storeVars,
                       mgrVars, watchVars, maintVars, lifeVars>>

\* Lines 112-114: the line is written through _current_raw_file, whatever
\* file that handle is on; through a handle that is None or whose file is
\* gone the line is lost.  Leaving the with block releases the lock.
WWrite(w) ==
    /\ wpc[w] = "write"
    /\ raw_dir' = IF current_raw_file \in Instants /\ raw_dir[current_raw_file] # Absent
                    THEN [raw_dir EXCEPT ![current_raw_file] = Append(@, DataLine(wts[w]))]
                    ELSE raw_dir
    /\ logged' = [logged EXCEPT ![wts[w]] = @ + 1]
    /\ text_lock' = IF text_lock = w THEN None ELSE text_lock
    /\ wpc' = [wpc EXCEPT ![w] = "idle"]
    /\ UNCHANGED <<daily_dir, compressed_dir, current_raw_file, current_raw_filename,
                   fs_now, compress_pc, reopened, open_handles>>
    /\ UNCHANGED <<wts, coreVars, alertVars, calVars, chanVars, storeVars,
                   mgrVars, watchVars, maintVars, lifeVars>>

\* ------------------------------------------------------------------------
\* The maintenance pass of the loop thread (data_logger.py:109-121)
\* ------------------------------------------------------------------------
\* Line 110: more than an hour has passed since the last complete pass.
MaintBegin ==
    /\ maint_pc = "idle"
    /\ compress_pc = None
    /\ fs_now > last_cleanup_time
    /\ passes < MaxPasses
    /\ maint_pc' = "consolidate"
    /\ passes' = passes + 1
    /\ UNCHANGED <<maint_ran, last_cleanup_time, textVars, besidesText>>

\* Outcomes of the writes of consolidate_daily_file, lines 149-164: they
\* complete, the daily file cannot be opened, or a read or a write raises
\* after open(daily_filepath, 'w') has cut the daily file.
ConsolidateOutcomes == {"ok", "unopened", "partial"}

\* Faulty variant: an error of the consolidation reaches the handler of
\* data_logger.py:120 and ends the pass.
after_consolidate_raise(outcome) == IF outcome = "ok" THEN "cleanup" ELSE "idle"

\* Lines 165-166 of text_file_logger.py: the error is caught and printed
\* inside consolidate_daily_file, which returns; data_logger.py:116 is next.
after_consolidate(outcome) == "cleanup"

\* data_logger.py:114, text_file_logger.consolidate_daily_file().
MaintConsolidate(outcome) ==
    LET date == DateOf(fs_now) - 1
        raw_files == {n \in RawNamesOf(date) : raw_dir[n] # Absent}
    IN  /\ maint_pc = "consolidate"
        /\ IF outcome = "ok"
             THEN consolidate_daily_file
             ELSE /\ raw_files # {}
                  /\ daily_dir' = IF outcome = "partial"
                                    THEN [daily_dir EXCEPT ![date] = <<Header>>]
                                    ELSE daily_dir
                  /\ UNCHANGED <<raw_dir, compressed_dir, current_raw_file,
                                 current_raw_filename, fs_now, compress_pc, logged,
                                 reopened, open_handles>>
                  /\ UNCHANGED besidesText
        /\ maint_pc' = after_consolidate(outcome)
        /\ maint_ran' = IF outcome = "ok" THEN maint_ran ELSE maint_ran \cup {"consolidate"}
        /\ UNCHANGED <<last_cleanup_time, passes>>

\* data_logger.py:116, text_file_logger.cleanup_old_files(); when the
\* listing of a directory raises, the handlers of lines 186 and 201 print
\* and nothing is deleted.
MaintCleanup(listed) ==
    /\ maint_pc = "cleanup"
    /\ IF listed
         THEN cleanup_old_files
         ELSE UNCHANGED <<textVars, besidesText>>
    /\ maint_pc' = "compress"
    /\ maint_ran' = IF listed THEN maint_ran ELSE maint_ran \cup {"cleanup"}
    /\ UNCHANGED <<last_cleanup_time, passes>>

\* data_logger.py:118, text_file_logger.compress_old_files(): the copy of
\* one daily file.  A copy that raises ends compress_old_files in its
\* handler (line 228), and line 119 ends the pass.
MaintCompressCopy(name, outcome) ==
    /\ maint_pc = "compress"
    /\ CompressCopy(name, outcome)
    /\ maint_pc' = IF outcome = "ok" THEN "compress" ELSE "idle"
    /\ maint_ran' = IF outcome = "ok" THEN maint_ran ELSE {}
    /\ last_cleanup_time' = IF outcome = "ok" THEN last_cleanup_time ELSE fs_now
    /\ UNCHANGED passes

MaintCompressUnlink ==
    /\ maint_pc = "compress"
    /\ CompressUnlink
    /\ UNCHANGED maintVars

\* compress_old_files has no file left to compress; line 119,
\* last_cleanup_time = current_time.
MaintEnd ==
    /\ maint_pc = "compress"
    /\ compress_pc = None
    /\ \A name \in DayNames : ~CompressDue(name)
    /\ maint_pc' = "idle"
    /\ last_cleanup_time' = fs_now
    /\ maint_ran' = {}
    /\ UNCHANGED passes
    /\ UNCHANGED <<textVars, besidesText>>

\* TextFileLogger.__init__, lines 21-51, on empty directories but for one
\* file of another origin in raw/ and in daily/.
InitText ==
    /\ raw_dir = [n \in RawNames |-> IF n = JunkName THEN <<Header>> ELSE Absent]
    /\ daily_dir = [n \in DayNames |-> IF n = JunkName THEN <<Header>> ELSE Absent]
    /\ compressed_dir = [n \in DayNames |-> Absent]
    /\ current_raw_file = None
    /\ current_raw_filename = None
    /\ fs_now = FirstDay * HOURS_PER_DAY
    /\ compress_pc = None
    /\ logged = [n \in Instants |-> 0]
    /\ reopened = {}
    /\ open_handles = {}

\* ------------------------------------------------------------------------
\* Calibration store (calibration.py)
\* ------------------------------------------------------------------------
\* Reference temperatures of the two-point calibration (defaults of line 39).
actual_ice == 0
actual_boil == 100

\* Arguments of the calibration calls.  The raw readings are chosen so that
\* the slope and the offset are whole numbers, which round() leaves as they
\* are.
FactorInputs == {1, 2}
RawReadings == {10, 20}
Temperatures == {3}

\* str(channel): the key of a channel in the JSON object.
str(channel) == <<"key", channel>>

\* The profile written for a channel without calibration.
DefaultProfile ==
    [factor |-> 1, slope |-> 1, offset |-> 0, ice_reading |-> None,
     boil_reading |-> None, calibration_method |-> "none"]

\* An entry of the legacy format: just a number.
LegacyNumber(n) == [number |-> n]

\* isinstance(data, dict)
is_dict(data) == "calibration_method" \in DOMAIN data

\* calibration.json holding the object factors, and the file between the
\* open(..., 'w') of save_calibration_factors and the end of json.dump:
\* it is empty, json.load raises on it.
File(factors) == [readable |-> TRUE, factors |-> factors]
TruncatedFile == [readable |-> FALSE, factors |-> <<>>]
NoPending == [active |-> FALSE, factors |-> <<>>]

\* get_calibration_factors: an absent file reads as the empty object.
json_load_raises == ~calibration_json.readable
get_calibration_factors == calibration_json.factors

\* The quotient of a by b, for b that divides a.
Divide(a, b) == IF b > 0 THEN a \div b ELSE 0 - (a \div (0 - b))

\* save_calibration_factors up to the open: the file is truncated.
save_calibration_factors(factors) ==
    /\ calibration_json' = TruncatedFile
    /\ cal_pending' = [active |-> TRUE, factors |-> factors]

CalRaise(op, channel, args, error) ==
    /\ cal_call' = [op |-> op, channel |-> channel, args |-> args, ret |-> error]
    /\ UNCHANGED <<calibration_json, cal_pending>>

CalRunning(op, channel, args) ==
    cal_call' = [op |-> op, channel |-> channel, args |-> args, ret |-> "running"]

\* set_calibration_factor, lines 18-37
simple_factors(factors, channel, factor) ==
    LET channel_key == str(channel) IN
    IF channel_key \notin DOMAIN factors \/ ~is_dict(factors[channel_key])
      THEN (channel_key :> [DefaultProfile EXCEPT !.factor = factor,
                                                  !.calibration_method = "simple"]) @@ factors
      ELSE [factors EXCEPT ![channel_key].factor = factor,
                           ![channel_key].calibration_method = "simple"]

set_calibration_factor(channel, factor) ==
    /\ ~cal_pending.active
    /\ IF json_load_raises
         THEN CalRaise("set_calibration_factor", channel, <<factor>>, "JSONDecodeError")
         ELSE /\ save_calibration_factors(simple_factors(get_calibration_factors, channel, factor))
              /\ CalRunning("set_calibration_factor", channel, <<factor>>)
    /\ UNCHANGED applied
    /\ UNCHANGED besidesCal

\* set_two_point_calibration, lines 39-97
two_point_profile(ice_reading, boil_reading) ==
    LET slope == Divide(actual_boil - actual_ice, boil_reading - ice_reading)
        offset == actual_ice - (slope * ice_reading)
    IN  [factor |-> slope, slope |-> slope, offset |-> offset,
         ice_reading |-> ice_reading, boil_reading |-> boil_reading,
         calibration_method |-> "two_point"]

\* Faulty variant: the readings are stored before they are compared.
OnSameReadings_stored(channel, ice_reading, boil_reading) ==
    /\ calibration_json' =
           File((str(channel) :> [DefaultProfile EXCEPT !.ice_reading = ice_reading,
                                                        !.boil_reading = boil_reading,
                                                        !.calibration_method = "two_point"])
                @@ get_calibration_factors)
    /\ cal_call' = [op |-> "set_two_point_calibration", channel |-> channel,
                    args |-> <<ice_reading, boil_reading>>, ret |-> "ValueError"]
    /\ UNCHANGED cal_pending

\* Lines 66-67: equal readings raise ValueError.
OnSameReadings(channel, ice_reading, boil_reading) ==
    CalRaise("set_two_point_calibration", channel, <<ice_reading, boil_reading>>, "ValueError")

set_two_point_calibration(channel, ice_reading, boil_reading) ==
    /\ ~cal_pending.active
    /\ IF json_load_raises
         THEN CalRaise("set_two_point_calibration", channel,
                       <<ice_reading, boil_reading>>, "JSONDecodeError")
         ELSE IF boil_reading = ice_reading
           THEN OnSameReadings(channel, ice_reading, boil_reading)
           ELSE /\ save_calibration_factors(
                       (str(channel) :> two_point_profile(ice_reading, boil_reading))
                       @@ get_calibration_factors)
                /\ CalRunning("set_two_point_calibration", channel,
                              <<ice_reading, boil_reading>>)
    /\ UNCHANGED applied
    /\ UNCHANGED besidesCal

\* reset_channel_calibration, lines 157-172
reset_channel_calibration(channel) ==
    /\ ~cal_pending.active
    /\ IF json_load_raises
         THEN CalRaise("reset_channel_calibration", channel, <<>>, "JSONDecodeError")
         ELSE /\ save_calibration_factors((str(channel) :> DefaultProfile)
                                          @@ get_calibration_factors)
              /\ CalRunning("reset_channel_calibration", channel, <<>>)
    /\ UNCHANGED applied
    /\ UNCHANGED besidesCal

\* save_calibration_factors from json.dump to the close of the file: the
\* setter returns.
SaveDump ==
    /\ cal_pending.active
    /\ calibration_json' = File(cal_pending.factors)
    /\ cal_pending' = NoPending
    /\ cal_call' = [cal_call EXCEPT !.ret = "ok"]
    /\ UNCHANGED applied
    /\ UNCHANGED besidesCal

\* The process is killed inside save_calibration_factors, after the open:
\* the file stays empty.
WriterKilled ==
    /\ cal_pending.active
    /\ cal_pending' = NoPending
    /\ cal_call' = [cal_call EXCEPT !.ret = "killed"]
    /\ UNCHANGED <<calibration_json, applied>>
    /\ UNCHANGED besidesCal

\* get_channel_calibration, lines 99-127
get_channel_calibration(factors, channel) ==
    LET channel_key == str(channel) IN
    IF channel_key \notin DOMAIN factors
      THEN DefaultProfile
      ELSE LET data == factors[channel_key] IN
           IF is_dict(data)
             THEN data
             ELSE [DefaultProfile EXCEPT !.factor = data.number, !.slope = data.number,
                                         !.calibration_method = "simple"]

\* The value apply_correction returns, lines 138-155
corrected(factors, channel, temperature) ==
    LET cal_data == get_channel_calibration(factors, channel)
        method == cal_data.calibration_method
    IN  IF method = "none"
          THEN temperature
          ELSE IF method = "two_point"
            THEN (temperature * cal_data.slope) + cal_data.offset
            ELSE temperature * cal_data.factor

\* apply_correction, lines 129-155, called by the loop thread at any time,
\* also while a setter is writing the file.
apply_correction(channel, temperature) ==
    /\ applied' = IF json_load_raises
                    THEN [channel |-> channel, temperature |-> temperature,
                          raised |-> TRUE, value |-> None]
                    ELSE [channel |-> channel, temperature |-> temperature,
                          raised |-> FALSE,
                          value |-> corrected(get_calibration_factors, channel, temperature)]
    /\ UNCHANGED <<calibration_json, cal_pending, cal_call>>
    /\ UNCHANGED besidesCal

\* No call has been made; calibration.json holds the object factors.
InitCalls(factors) ==
    /\ calibration_json = File(factors)
    /\ cal_pending = NoPending
    /\ cal_call = [op |-> "none", channel |-> None, args |-> <<>>, ret |-> "none"]
    /\ applied = [channel |-> None, temperature |-> None, raised |-> FALSE, value |-> None]

\* calibration.json does not exist.
InitCalibration == InitCalls(<<>>)

\* ------------------------------------------------------------------------
\* Structured store (database_manager.py)
\* ------------------------------------------------------------------------
\* The values of the wall clock (local time): it advances, and it is set
\* back at the end of daylight saving time or by a time synchronisation.
Stamps == 1..MaxStamp

Backends == {"sqlite", "postgresql"}

\* The rows of the table.  A row is [id, timestamp, thermocouple_id]; the
\* temperature plays no part in the queries modelled.
Rows(table) == {table[k] : k \in 1..Len(table)}

\* insert_reading, lines 86-93 and 201-206: the id counts the rows inserted,
\* the timestamp is the wall clock of the insert.
insert_reading(thermocouple_id) ==
    /\ Len(readings) < MaxRows
    /\ readings' = Append(readings, [id |-> Len(readings) + 1, timestamp |-> db_now,
                                     thermocouple_id |-> thermocouple_id])
    /\ queried' = FALSE
    /\ UNCHANGED <<db_now, db_type, latest>>
    /\ UNCHANGED besidesStore

\* MAX(timestamp) ... GROUP BY thermocouple_id, for a channel with rows
max_time(table, thermocouple_id) ==
    CHOOSE m \in {r.timestamp : r \in {q \in Rows(table) : q.thermocouple_id = thermocouple_id}} :
        \A r \in Rows(table) : r.thermocouple_id = thermocouple_id => r.timestamp <= m

\* SQLiteDatabase.get_latest_readings, lines 95-107: the rows joined with
\* the maximal timestamp of their channel.
sqlite_latest(table) ==
    {r1 \in Rows(table) : r1.timestamp = max_time(table, r1.thermocouple_id)}

\* PostgreSQLDatabase.get_latest_readings, lines 208-216: DISTINCT ON keeps
\* the first row of every channel in the order thermocouple_id, timestamp
\* DESC; which of the rows of equal timestamp comes first is not fixed.
postgres_latest(table) ==
    {result \in SUBSET sqlite_latest(table) :
        \A r \in Rows(table) :
            Cardinality({q \in result : q.thermocouple_id = r.thermocouple_id}) = 1}

\* The results get_latest_readings may return.
LatestResults ==
    IF db_type = "sqlite" THEN {sqlite_latest(readings)} ELSE postgres_latest(readings)

get_latest_readings ==
    /\ \E result \in LatestResults : latest' = result
    /\ queried' = TRUE
    /\ UNCHANGED <<readings, db_now, db_type>>
    /\ UNCHANGED besidesStore

\* The wall clock is read at another value.
DbClock(t) ==
    /\ t # db_now
    /\ db_now' = t
    /\ UNCHANGED <<readings, db_type, latest, queried>>
    /\ UNCHANGED besidesStore

\* create_tables on a new database, lines 69-84 and 182-199.
InitTable ==
    /\ readings = <<>>
    /\ db_now = CHOOSE t \in Stamps : \A u \in Stamps : t <= u
    /\ latest = {}
    /\ queried = FALSE

\* The backend of the default configuration.
InitStore == InitTable /\ db_type = "sqlite"

\* ------------------------------------------------------------------------
\* Backend selection (database_manager.py: DatabaseManager)
\* ------------------------------------------------------------------------
\* The db_type arguments of switch_database; "mysql" stands for any name
\* the method does not know.
SwitchInputs == {"sqlite", "postgresql", "both", "mysql"}

\* The backends an instance of the given kind writes to: SQLiteDatabase,
\* PostgreSQLDatabase, DualDatabaseManager (lines 274-290).
backends_of(kind) ==
    IF kind = "both" THEN {"sqlite", "postgresql"} ELSE {kind}

\* Faulty variant: the requested name is persisted.
config_after_requested(new_type) == new_type

\* The value switch_database writes to database.type (lines 436, 450, 454,
\* 464).
config_after(new_type) ==
    IF new_type = "postgresql"
      THEN "postgresql"
      ELSE IF new_type = "both"
        THEN IF POSTGRES_AVAILABLE THEN "both" ELSE "sqlite"
        ELSE "sqlite"

\* The kind of the instance switch_database assigns to self.db (lines 435,
\* 449, 453, 463).
db_after(new_type) ==
    IF new_type = "postgresql"
      THEN "postgresql"
      ELSE IF new_type = "both"
        THEN IF POSTGRES_AVAILABLE THEN "both" ELSE "sqlite"
        ELSE "sqlite"

\* The construction of the new instances fails: psycopg2 is missing (line
\* 427) or the PostgreSQL server refuses the connection (lines 434, 448).
switch_raises(new_type, pgOk) ==
    \/ new_type = "postgresql" /\ (~POSTGRES_AVAILABLE \/ ~pgOk)
    \/ new_type = "both" /\ POSTGRES_AVAILABLE /\ ~pgOk

\* switch_database, lines 422-423: the instance in use is disconnected.
SwitchDisconnect(new_type) ==
    /\ switch_call.ret # "running"
    /\ mgr_db' = [mgr_db EXCEPT !.open = FALSE]
    /\ switch_call' = [db_type |-> new_type, ret |-> "running"]
    /\ UNCHANGED <<self_db_type, config_database_type, POSTGRES_AVAILABLE, routed>>
    /\ UNCHANGED besidesMgr

\* switch_database, lines 425-466: the new instances are built, self.db and
\* the configuration are set, the call returns; or the construction raises.
SwitchConnect(pgOk) ==
    /\ switch_call.ret = "running"
    /\ IF switch_raises(switch_call.db_type, pgOk)
         THEN /\ switch_call' = [switch_call EXCEPT !.ret = "raised"]
              /\ UNCHANGED <<mgr_db, self_db_type, config_database_type>>
         ELSE /\ mgr_db' = [kind |-> db_after(switch_call.db_type), open |-> TRUE]
              /\ config_database_type' = config_after(switch_call.db_type)
              /\ self_db_type' = switch_call.db_type
              /\ switch_call' = [switch_call EXCEPT !.ret = "returned"]
    /\ UNCHANGED <<POSTGRES_AVAILABLE, routed>>
    /\ UNCHANGED besidesMgr

\* db_manager.insert_reading of the scheduler (data_logger.py:101):
\* __getattr__ hands the call to self.db.  On closed connections a single
\* backend raises; DualDatabaseManager catches the errors of both backends
\* and returns with nothing written.
ManagerInsert ==
    /\ routed.n < MaxRows
    /\ routed' = [n |-> routed.n + 1,
                  targets |-> IF mgr_db.open THEN backends_of(mgr_db.kind) ELSE {},
                  raised |-> ~mgr_db.open /\ mgr_db.kind # "both"]
    /\ UNCHANGED <<mgr_db, self_db_type, config_database_type, POSTGRES_AVAILABLE,
                   switch_call>>
    /\ UNCHANGED besidesMgr

\* DatabaseManager.__init__ with the given configuration, the server being
\* reachable (lines 368-418).
InitManager(type) ==
    /\ POSTGRES_AVAILABLE \in BOOLEAN
    /\ config_database_type = type
    /\ self_db_type = (IF type = "both" /\ ~POSTGRES_AVAILABLE THEN "sqlite" ELSE type)
    /\ mgr_db = [kind |-> IF type = "sqlite" \/ ~POSTGRES_AVAILABLE THEN "sqlite" ELSE type,
                 open |-> TRUE]
    /\ switch_call = [db_type |-> "none", ret |-> "none"]
    /\ routed = [n |-> 0, targets |-> {}, raised |-> FALSE]

\* The default configuration, psycopg2 installed.
InitMgr == InitManager("sqlite") /\ POSTGRES_AVAILABLE

\* Nothing has been observed; __init__, line 155, for the counter.
InitWatch ==
    /\ queue_torn = FALSE
    /\ save_call = NoSave
    /\ consecutive_temp_warnings = 0
    /\ cpu_temps = <<>>
    /\ checked = [internet |-> TRUE, board |-> FALSE]
    /\ taken = [alert |-> [title |-> "none", timestamp |-> None],
                sent |-> FALSE, retry_count |-> 0]

\* The initial state of the components other than the scheduler and the
\* dispatcher.
\* log_temperatures, line 77: last_cleanup_time = time.time(); no pass runs.
InitMaint ==
    /\ maint_pc = "idle"
    /\ maint_ran = {}
    /\ last_cleanup_time = FirstDay * HOURS_PER_DAY
    /\ passes = 0

\* EmailNotificationSystem.__init__, lines 144-145: not running, no worker
\* thread.
InitLife ==
    /\ is_running = FALSE
    /\ worker_thread = None
    /\ nw_pc = [w \in Workers |-> "unborn"]
    /\ nw_alert = [w \in Workers |-> NoAlert]
    /\ stop_pc = "idle"
    /\ left_behind = {}

\* Nobody is inside log_reading (text_file_logger.py:41).
InitLock ==
    /\ text_lock = None
    /\ wpc = [w \in Writers |-> "idle"]
    /\ wts = [w \in Writers |-> None]

InitRest ==
    /\ InitText /\ InitCalibration /\ InitChan /\ InitStore /\ InitMgr /\ InitMaint
    /\ InitLock /\ InitLife

InitAux == InitRest /\ InitWatch

\* ------------------------------------------------------------------------
\* Initial state and specifications of the scheduler
\* ------------------------------------------------------------------------
\* Faults of the environment are fixed for a behaviour: at most one channel
\* has a malformed calibration entry; each sink is either up or down.
FaultChoices == {{}} \cup {{a} : a \in Channels}

InitCore ==
    /\ logging_thread = None                                        \* data_logger.py:26
    /\ logging_stop_event = FALSE                                   \* data_logger.py:27
    /\ sensor_active_status = [i \in Channels |-> TRUE]             \* data_logger.py:28
    /\ sensor_intervals = [i \in Channels |-> SAMPLE_INTERVAL_SECONDS] \* data_logger.py:23
    /\ tstate = [t \in Threads |-> "unborn"]
    /\ tpc = [t \in Threads |-> "none"]
    /\ ti = [t \in Threads |-> 0]
    /\ current_time = [t \in Threads |-> 0]
    /\ last_log_time = [t \in Threads |-> FreshLastLog]
    /\ cpc = [c \in Callers |-> "idle"]
    /\ cjoin = [c \in Callers |-> None]
    /\ cret = [c \in Callers |-> "none"]
    /\ now = T0
    /\ daq_connected = FALSE                                        \* sm_tc/__init__.py:103
    /\ cal_bad \in FaultChoices
    /\ db_up \in BOOLEAN
    /\ text_up \in BOOLEAN
    /\ text_log = {}
    /\ db_rows = {}

\* A step of a call that is in progress.
CallStep(c) ==
    \/ Start134(c)
    \/ Start135(c)
    \/ Start136(c)
    \/ Start137(c)
    \/ Stop145(c)
    \/ Stop146(c)
    \/ Stop147(c)
    \/ StopJoin(c)
    \/ Stop148(c)

\* Steps of the configuration entry points and of the clock.
CfgStep ==
    \/ Tick
    \/ disconnect
    \/ \E ch \in ChannelInputs, st \in BOOLEAN :
           set_sensor_status(ch, st) /\ UNCHANGED cfg_call
    \/ \E ch \in ChannelInputs, iv \in IntervalInputs :
           set_sensor_interval(ch, iv) /\ UNCHANGED cfg_call

vars == <<coreVars, alertVars, auxVars>>

\* --- Spec: concurrent callers -------------------------------------------
\* Callers enter start and stop at any time, also while other calls run.
\* The configuration is left alone and the clock stands still: the
\* interleavings of the calls and of the loop threads are what is explored.
Init ==
    /\ InitCore
    /\ cal_bad = {} /\ text_up
    /\ InitAlerts /\ ~email_enabled
    /\ InitAux

Next ==
    \/ \E c \in Callers : StartCall(c)
    \/ \E c \in Callers : StopCall(c)
    \/ \E c \in Callers : CallStep(c)
    \/ \E t \in Threads : LoopStep(t)
    \/ \E ok \in BOOLEAN : connect(ok)

Spec == Init /\ [][Next]_vars

\* --- SpecCtl: one controller, faulty sinks ------------------------------
\* A call to start or stop is issued only after the previous call has
\* returned; the loop thread runs concurrently with the calls.  At most one
\* fault is present: a malformed calibration entry or a sink that is down.
Controller == CHOOSE c \in Callers : \A d \in Callers : c <= d

CtlStartCall == AllIdle /\ StartCall(Controller)

CtlStopCall == AllIdle /\ StopCall(Controller)

InitCtl ==
    /\ InitCore
    /\ Cardinality(cal_bad) + (IF db_up THEN 0 ELSE 1) + (IF text_up THEN 0 ELSE 1) <= 1
    /\ InitAlerts /\ ~email_enabled
    /\ InitAux

NextCtl ==
    \/ CtlStartCall
    \/ CtlStopCall
    \/ \E c \in Callers : CallStep(c)
    \/ \E t \in Threads : LoopStep(t)
    \/ \E ok \in BOOLEAN : connect(ok)

SpecCtl == InitCtl /\ [][NextCtl]_vars

\* The loop thread and the controller inside a call are scheduled by the
\* operating system: a step that stays possible is eventually taken.  With
\* one controller at most one loop thread and one call exist at a time.
Fairness ==
    /\ WF_vars(\E t \in Threads : LoopStep(t))
    /\ WF_vars(\E c \in Callers : CallStep(c))

FairCtl == SpecCtl /\ Fairness

\* --- SpecDual: one controller, both backends configured ------------------
\* As SpecCtl with database.type = "both"; the text sink and the backends
\* are each up or down, and a calibration entry may be malformed.
InitDual ==
    /\ InitCore
    /\ InitAlerts /\ ~email_enabled
    /\ InitText /\ InitCalibration /\ InitChan /\ InitStore /\ InitWatch /\ InitMaint /\ InitLock /\ InitLife
    /\ InitManager("both") /\ POSTGRES_AVAILABLE

SpecDual == InitDual /\ [][NextCtl]_vars

\* --- SpecCfg: one controller, changing configuration --------------------
\* As SpecCtl, with the clock running and the API layer enabling, disabling
\* and re-timing channels and disconnecting the board.  The text sink works
\* and the calibration entries are well-formed.
InitCfg ==
    /\ InitCore
    /\ cal_bad = {} /\ text_up
    /\ InitAlerts /\ ~email_enabled
    /\ InitAux

NextCfg ==
    \/ CtlStartCall
    \/ CtlStopCall
    \/ \E c \in Callers : CallStep(c)
    \/ \E t \in Threads : LoopStep(t)
    \/ \E ok \in BOOLEAN : connect(ok)
    \/ CfgStep

SpecCfg == InitCfg /\ [][NextCfg]_vars

FairCfg == SpecCfg /\ Fairness

\* --- SpecOff: the loop and the board, status calls observed -------------
\* One controller starts and stops the loop while the board is connected
\* and disconnected and the API layer enables and disables channels, its
\* calls observed.  The intervals are left alone and the clock stands still.
NextOff ==
    \/ CtlStartCall
    \/ CtlStopCall
    \/ \E c \in Callers : CallStep(c)
    \/ \E t \in Threads : LoopStep(t)
    \/ \E ok \in BOOLEAN : connect(ok)
    \/ disconnect
    \/ \E ch \in ChannelInputs, st \in BOOLEAN : SetStatusCall(ch, st)

SpecOff == InitCfg /\ [][NextOff]_vars

\* --- SpecPace: the loop with its clock and the sleep of its handler ------
\* The loop is started once and never stopped; before the first record the
\* API layer sets an interval longer than the sleep of the handler; the
\* clock runs, and the handler of a failed tick sleeps before the next tick.
\* The structured store is up or down.
LongInterval == Number(EXCEPT_SLEEP_SECONDS + 2, FALSE)

NextPace ==
    \/ CtlStartCall
    \/ \E c \in Callers : Start134(c) \/ Start135(c) \/ Start136(c) \/ Start137(c)
    \/ \E ok \in BOOLEAN : connect(ok)
    \/ \E ch \in Channels :
           text_log = {} /\ set_sensor_interval(ch, LongInterval) /\ UNCHANGED cfg_call
    \/ \E t \in Threads : LoopWhile(t)
    \/ \E t \in Threads : LoopFor(t)
    \/ \E t \in Threads, busOk \in BOOLEAN : LoopRead(t, busOk)
    \/ \E t \in Threads : LoopText(t)
    \/ \E t \in Threads : LoopDb(t)
    \/ \E t \in Threads : PaceSleep(t)
    \/ \E t \in Threads : PaceExcept(t)
    \/ PaceTick

SpecPace == InitCfg /\ [][NextPace]_vars

\* --- SpecAlert: the alert dispatcher ------------------------------------
\* Monitors raise alerts, the worker delivers them and checks the
\* connectivity, time passes.  The scheduler is idle and its sinks work.
InitAlert ==
    /\ InitCore
    /\ cal_bad = {} /\ text_up /\ db_up
    /\ InitAlerts
    /\ InitAux

NextAlert ==
    \/ \E title \in AlertTitles : RaiseAlert(title)
    \/ \E smtpOk \in BOOLEAN : WorkerSend(smtpOk) /\ UNCHANGED taken
    \/ \E internet_now \in BOOLEAN : check_connectivity(internet_now) /\ UNCHANGED checked
    \/ AlertTick

SpecAlert == InitAlert /\ [][NextAlert]_vars

\* --- SpecDrain: the dispatcher with a durable queue on disk --------------
\* queued_alerts.json outlives the process: the dispatcher starts with the
\* alerts an earlier run has saved, oldest first.
SavedAlerts ==
    {alert_dict([title |-> title, timestamp |-> 0 - TickMinutes]) : title \in AlertTitles}

SavedFiles ==
    {<<>>} \cup UNION {[1..n -> SavedAlerts] : n \in 1..MaxSaved}

InitDrain ==
    /\ InitCore
    /\ cal_bad = {} /\ text_up /\ db_up
    /\ InitDispatcher
    /\ queued_alerts \in SavedFiles
    /\ InitAux

SpecDrain == InitDrain /\ [][NextAlert]_vars

\* --- SpecWatch: the dispatcher, observed ---------------------------------
\* As SpecAlert, with the connectivity checks and the delivery attempts
\* observed.
NextWatch ==
    \/ \E title \in AlertTitles : RaiseAlert(title)
    \/ \E smtpOk \in BOOLEAN : WorkerObserved(smtpOk)
    \/ \E internet_now \in BOOLEAN : CheckObserved(internet_now)
    \/ AlertTick

SpecWatch == InitAlert /\ [][NextWatch]_vars

\* --- SpecQueue: the durable queue file and its writers -------------------
\* save_alert_to_file called with an alert, the check that drains the file,
\* and a kill of the process at any point between the steps.
NextQueue ==
    \/ SaveLoad("Internet Connection Lost")
    \/ SaveOpen
    \/ SaveWrite
    \/ KillDispatcher
    \/ \E internet_now \in BOOLEAN : CheckObserved(internet_now)
    \/ AlertTick

SpecQueue == InitAlert /\ [][NextQueue]_vars

\* --- SpecCpu: the dispatcher with its CPU temperature monitor ------------
NextCpu ==
    \/ \E temp \in CpuReadings : check_cpu_temperature(temp)
    \/ \E smtpOk \in BOOLEAN : WorkerSend(smtpOk) /\ UNCHANGED taken
    \/ AlertTick

SpecCpu == InitAlert /\ [][NextCpu]_vars

\* --- SpecText: the text log store ---------------------------------------
\* The scheduler's thread logs readings with the current time and runs the
\* maintenance steps; time passes and the process is restarted.
InitTextStore ==
    /\ InitCore
    /\ cal_bad = {} /\ text_up /\ db_up
    /\ InitAlerts /\ ~email_enabled
    /\ InitAux

NextText ==
    \/ log_reading /\ UNCHANGED maintVars
    \/ consolidate_daily_file /\ UNCHANGED maintVars
    \/ cleanup_old_files /\ UNCHANGED maintVars
    \/ \E name \in DayNames, outcome \in CopyOutcomes :
           CompressCopy(name, outcome) /\ UNCHANGED maintVars
    \/ CompressUnlink /\ UNCHANGED maintVars
    \/ \E t \in Instants : FsTick(t) /\ UNCHANGED maintVars
    \/ RestartLogger /\ UNCHANGED maintVars

SpecText == InitTextStore /\ [][NextText]_vars

\* --- SpecMaint: the loop thread with its maintenance passes ---------------
\* The loop thread logs readings and, between them, runs maintenance passes
\* whose steps may fail; time passes, with or without a pass.
NextMaint ==
    \/ maint_pc = "idle" /\ log_reading /\ UNCHANGED maintVars
    \/ \E t \in Instants : maint_pc = "idle" /\ FsTick(t) /\ UNCHANGED maintVars
    \/ MaintBegin
    \/ \E outcome \in ConsolidateOutcomes : MaintConsolidate(outcome)
    \/ \E listed \in BOOLEAN : MaintCleanup(listed)
    \/ \E name \in DayNames, outcome \in CopyOutcomes : MaintCompressCopy(name, outcome)
    \/ MaintCompressUnlink
    \/ MaintEnd

SpecMaint == InitTextStore /\ [][NextMaint]_vars

\* --- SpecLife: the notification system started and stopped ---------------
\* Alerts are raised while the application starts and stops the
\* notification system and its workers take and deliver the alerts.
NextLife ==
    \/ \E title \in AlertTitles : RaiseAlert(title)
    \/ start
    \/ stop
    \/ stop_return
    \/ \E w \in Workers : WorkerTest(w)
    \/ \E w \in Workers : WorkerGet(w)
    \/ \E w \in Workers, smtpOk \in BOOLEAN : WorkerDeliver(w, smtpOk)

SpecLife == InitAlert /\ [][NextLife]_vars

\* --- SpecLock: several threads in log_reading ----------------------------
\* Threads call log_reading with the time of their tick, step by step, and
\* close() while time passes.
NextLock ==
    \/ \E w \in Writers, ts \in Instants : WCall(w, ts)
    \/ \E w \in Writers : WAcquire(w)
    \/ \E w \in Writers : WEnsure(w)
    \/ \E w \in Writers : WWrite(w)
    \/ text_lock = None /\ close /\ UNCHANGED maintVars
    \/ \E t \in Instants : FsTick(t) /\ UNCHANGED maintVars

SpecLock == InitTextStore /\ [][NextLock]_vars

\* --- SpecClose: the text log store with close() ---------------------------
\* log_reading and close() are called in any order while time passes;
\* nothing deletes a file.
NextClose ==
    \/ log_reading /\ UNCHANGED maintVars
    \/ close /\ UNCHANGED maintVars
    \/ \E t \in Instants : FsTick(t) /\ UNCHANGED maintVars

SpecClose == InitTextStore /\ [][NextClose]_vars

\* --- SpecCal: the calibration store -------------------------------------
\* The API sets and resets profiles while the loop thread applies them.  The
\* file is absent at first, or holds a hand-written entry for the first
\* channel: a legacy number, or a profile of method "none" that keeps the
\* values of an earlier calibration.
InitialFactors ==
    {<<>>} \cup
    {str(c) :> entry :
        c \in {CHOOSE a \in Channels : \A b \in Channels : a <= b},
        entry \in {LegacyNumber(2),
                   [two_point_profile(10, 20) EXCEPT !.calibration_method = "none"]}}

InitCal ==
    /\ InitCore
    /\ cal_bad = {} /\ text_up /\ db_up
    /\ InitAlerts /\ ~email_enabled
    /\ InitText /\ InitChan /\ InitStore /\ InitMgr /\ InitWatch /\ InitMaint /\ InitLock /\ InitLife
    /\ \E factors \in InitialFactors : InitCalls(factors)

NextCal ==
    \/ \E channel \in Channels, factor \in FactorInputs : set_calibration_factor(channel, factor)
    \/ \E channel \in Channels, ice_reading \in RawReadings, boil_reading \in RawReadings :
           set_two_point_calibration(channel, ice_reading, boil_reading)
    \/ \E channel \in Channels : reset_channel_calibration(channel)
    \/ SaveDump
    \/ WriterKilled
    \/ \E channel \in Channels, temperature \in Temperatures : apply_correction(channel, temperature)

SpecCal == InitCal /\ [][NextCal]_vars

\* --- SpecChan: the channel configuration --------------------------------
\* The API layer calls the setters with any channel number and any number
\* as interval; the calls are observed.  The scheduler is idle.
NextChan ==
    \/ \E channel \in ChannelInputs, status \in BOOLEAN : SetStatusCall(channel, status)
    \/ \E channel \in ChannelInputs, interval \in AnyInterval : SetIntervalCall(channel, interval)

SpecChan == InitCfg /\ [][NextChan]_vars

\* --- SpecStore: the structured store ------------------------------------
\* Readings are inserted and the latest readings are queried, on either
\* backend, while the wall clock moves.
InitDb ==
    /\ InitCore
    /\ cal_bad = {} /\ text_up /\ db_up
    /\ InitAlerts /\ ~email_enabled
    /\ InitText /\ InitCalibration /\ InitChan /\ InitMgr /\ InitWatch /\ InitMaint /\ InitLock /\ InitLife
    /\ InitTable /\ db_type \in Backends

NextStore ==
    \/ \E thermocouple_id \in Channels : insert_reading(thermocouple_id)
    \/ get_latest_readings
    \/ \E t \in Stamps : DbClock(t)

SpecStore == InitDb /\ [][NextStore]_vars

\* --- SpecSwitch: the backend selection ----------------------------------
\* The API layer switches the backend, one call at a time, while the
\* scheduler inserts readings through the manager.
InitSwitch ==
    /\ InitCore
    /\ cal_bad = {} /\ text_up /\ db_up
    /\ InitAlerts /\ ~email_enabled
    /\ InitText /\ InitCalibration /\ InitChan /\ InitStore /\ InitWatch /\ InitMaint /\ InitLock /\ InitLife
    /\ \E type \in {"sqlite", "both"} : InitManager(type)

NextSwitch ==
    \/ \E new_type \in SwitchInputs : SwitchDisconnect(new_type)
    \/ \E pgOk \in BOOLEAN : SwitchConnect(pgOk)
    \/ ManagerInsert

SpecSwitch == InitSwitch /\ [][NextSwitch]_vars

\* ========================================================================
\* Claims
\* ========================================================================
\* The Reading thread t is recording.
Reading(t) == <<ti[t], current_time[t]>>

\* Thread t reads the driver in this step.
DidRead(t) == tpc[t] = "read" /\ tpc'[t] # "read"

\* Thread t calls a sink in this step.
DidWrite(t) == \/ tpc[t] = "text" /\ tpc'[t] # "text"
               \/ tpc[t] = "db" /\ tpc'[t] # "db"

\* Channel b is enabled and due for a running loop thread that has not been
\* told to stop.
DueNow(b) ==
    /\ ~logging_stop_event
    /\ sensor_active_status[b]
    /\ \E t \in Threads : is_alive(t) /\ now - last_log_time[t][b] >= sensor_intervals[b]

\* C1: for any interleaving of start() and stop() calls of concurrent
\* callers, at most one poller thread is active at any time.
C1_AtMostOnePoller == Cardinality(AliveThreads) <= 1

\* C2: once stop() has returned true, and until a later call is issued, no
\* loop thread reads the driver or writes a Reading to a sink.
C2_NoReadAfterStop ==
    [][(\E c \in Callers : cret[c] = "stop_T")
         => /\ \A t \in Threads : ~DidRead(t) /\ ~DidWrite(t)
            /\ text_log' = text_log
            /\ db_rows' = db_rows]_vars

\* The board is connected and a channel is enabled after stop() returned true:
\* a running loop would read.
C2_Witness ==
    /\ cret[Controller] = "stop_T"
    /\ daq_connected
    /\ \E b \in Channels : sensor_active_status[b]

\* C3: start() returns true and spawns exactly one loop when no loop is
\* running; it returns false and spawns nothing when a loop is running.  After
\* start() has returned (true or false) one loop runs, so a second start()
\* returns false; after stop() has returned true none runs, so the next
\* start() returns true.
C3_StartContract ==
    /\ [](\A c \in Callers :
            /\ (cret[c] \in {"start_T", "start_F"} /\ AllIdle) => Cardinality(AliveThreads) = 1
            /\ (cret[c] = "stop_T" /\ AllIdle) => AliveThreads = {})
    /\ [][\A c \in Callers :
            /\ (cpc[c] = "s134" /\ cpc'[c] # "s134")
                  => IF AliveThreads = {}
                       THEN cpc'[c] = "s135"
                       ELSE cret'[c] = "start_F" /\ UNCHANGED <<schedVars, threadVars>>
            /\ (cret[c] # "start_T" /\ cret'[c] = "start_T")
                  => AliveThreads = {} /\ Cardinality(AliveThreads') = 1
            /\ (cret[c] # "start_F" /\ cret'[c] = "start_F")
                  => AliveThreads # {} /\ AliveThreads' = AliveThreads]_vars

\* A start() issued while the loop was running has returned false.
C3_Witness ==
    /\ cret[Controller] = "start_F"
    /\ AllIdle
    /\ is_logging

\* C4: stop() called while a loop runs signals it and returns true only
\* after the loop has exited, and then isRunning() is false; stop() called
\* when nothing runs returns false and changes nothing; a stop() call
\* eventually returns.
C4_StopContract ==
    /\ [](\A c \in Callers :
            cret[c] = "stop_T" => AliveThreads = {} /\ ~is_logging)
    /\ [][\A c \in Callers :
            /\ (cpc[c] = "p145" /\ cpc'[c] # "p145")
                  => IF AliveThreads # {}
                       THEN cpc'[c] = "p146"
                       ELSE cret'[c] = "stop_F" /\ UNCHANGED <<schedVars, threadVars, sinkVars>>
            /\ (cpc[c] = "p146" /\ cpc'[c] # "p146") => logging_stop_event'
            /\ (cret[c] # "stop_T" /\ cret'[c] = "stop_T") => AliveThreads = {}]_vars
    /\ \A c \in Callers :
            (cpc[c] \in {"p145", "p146", "p147", "join", "p148"}) ~> (cret[c] \in {"stop_T", "stop_F"})

\* stop() has returned true after the loop had sampled.
C4_Witness ==
    /\ cret[Controller] = "stop_T"
    /\ logging_thread = None
    /\ db_rows # {}

C6_DualWrite ==
    [][\A t \in Threads :
         /\ (tpc[t] = "text" /\ tpc'[t] # "text")
               => tpc'[t] = "db" /\ (text_up => Reading(t) \in text_log')
         /\ (tpc[t] = "db" /\ tpc'[t] # "db")
               => /\ text_up => Reading(t) \in text_log'
                  /\ db_up => Reading(t) \in db_rows']_vars

\* The text sink is down and a Reading has been inserted in the database.
C6_Witness == ~text_up /\ db_rows # {}

\* C7: an exception of the structured-store write is caught at the record
\* step: it never takes the loop to the handler of the whole tick.
C7_InsertErrorCaught ==
    [][\A t \in Threads : tpc[t] = "db" => tpc'[t] # "except"]_vars

\* C8: when channel a raises on every attempt, every other enabled channel
\* b whose own read and recording work is still eventually sampled.
C8_ErrorIsolation ==
    \A b \in Channels :
        [](DueNow(b) /\ db_up /\ b \notin cal_bad => <>(~DueNow(b)))

\* C9: two create_alert calls with the same title less than the suppression
\* window apart put exactly one alert on a queue, whether or not the first
\* has been delivered.
C9_DuplicateSuppressed ==
    \A j, k \in DOMAIN accepted :
        (j < k /\ accepted[j].title = accepted[k].title)
            => accepted[k].timestamp - accepted[j].timestamp >= duplicate_suppression_minutes

\* C10: while the recorded Internet state is disconnected, an alert that
\* create_alert accepts is appended to queued_alerts.json and is not put on
\* the in-memory queue.
C10_OfflineToDurableQueue ==
    [][(~internet_connected /\ ~internet_connected' /\ accepted' # accepted)
          => /\ alert_queue' = alert_queue
             /\ queued_alerts' = save_alert_to_file(queued_alerts, accepted'[Len(accepted')])]_vars

\* C11: when the Internet check goes from disconnected to connected, the
\* alerts of the durable queue are put at the end of the in-memory queue in
\* the order in which they were saved, and the on-disk queue is empty
\* afterwards.
C11_DrainInOrder ==
    [][(~internet_connected /\ internet_connected')
          => /\ queued_alerts' = <<>>
             /\ Len(alert_queue') >= Len(alert_queue) + Len(queued_alerts)
             /\ SubSeq(alert_queue', 1, Len(alert_queue)) = alert_queue
             /\ SubSeq(alert_queue', Len(alert_queue') - Len(queued_alerts) + 1, Len(alert_queue'))
                   = LoadedAlerts(queued_alerts)]_vars

\* Two different saved alerts have been moved to the in-memory queue.
C11_Witness ==
    /\ internet_connected
    /\ queued_alerts = <<>>
    /\ \E k \in DOMAIN alert_queue :
          /\ k + 1 \in DOMAIN alert_queue
          /\ alert_queue[k].timestamp < 0
          /\ alert_queue[k + 1].timestamp < 0
          /\ alert_queue[k] # alert_queue[k + 1]

\* The number of lines of a file that are equal to a given line.
Occurrences(file, line) == Cardinality({k \in DOMAIN file : file[k] = line})

\* C12: each log_reading with timestamp ts appends exactly one data line to
\* the hourly file named after ts and touches no other file; every hourly
\* file starts with one header line followed by exactly the data lines
\* logged for its hour, also when it has been reopened for append.
C12_HourlyFiles ==
    /\ [](\A h \in Instants :
            raw_dir[h] # Absent
               => /\ raw_dir[h][1] = Header
                  /\ Len(raw_dir[h]) = 1 + logged[h]
                  /\ \A k \in 2..Len(raw_dir[h]) : raw_dir[h][k] = DataLine(h))
    /\ [][\A h \in Instants :
            logged'[h] # logged[h]
               => /\ logged'[h] = logged[h] + 1
                  /\ h = get_raw_filename(fs_now)
                  /\ Len(raw_dir'[h]) = 1 + logged'[h]
                  /\ raw_dir'[h][Len(raw_dir'[h])] = DataLine(fs_now)
                  /\ \A n \in RawNames \ {h} : raw_dir'[n] = raw_dir[n]]_vars

\* Readings have been written across an hour boundary, and the file of the
\* second hour was not empty when it was opened again for append.
C12_Witness ==
    \E g, h \in Instants :
        /\ g < h
        /\ logged[g] >= 1 /\ raw_dir[g] # Absent
        /\ logged[h] >= 2 /\ raw_dir[h] # Absent
        /\ h \in reopened

\* C13: consolidate writes a daily file that holds one header line followed
\* by the data records of that day's hourly files in hour order, as many of
\* each hour as the hourly file holds, and leaves the hourly files unchanged.
C13_Consolidate ==
    [][\A d \in ObservedDays :
         (compress_pc = None /\ daily_dir'[d] # daily_dir[d] /\ daily_dir'[d] # Absent)
            => /\ raw_dir' = raw_dir
               /\ daily_dir'[d][1] = Header
               /\ \A k \in 2..Len(daily_dir'[d]) :
                     \E h \in RawNamesOf(d) : daily_dir'[d][k] = DataLine(h)
               /\ \A j, k \in 2..Len(daily_dir'[d]) :
                     j < k => daily_dir'[d][j][2] <= daily_dir'[d][k][2]
               /\ \A h \in RawNamesOf(d) :
                     Occurrences(daily_dir'[d], DataLine(h))
                        = IF raw_dir[h] = Absent THEN 0 ELSE Len(raw_dir[h]) - 1]_vars

\* A daily file holds the records of two hourly files that still exist.
C13_Witness ==
    \E d \in ObservedDays, g, h \in Instants :
        /\ g < h /\ DateOf(g) = d /\ DateOf(h) = d
        /\ raw_dir[g] # Absent /\ raw_dir[h] # Absent
        /\ Len(daily_dir[d]) = Len(raw_dir[g]) + Len(raw_dir[h]) - 1
        /\ Len(daily_dir[d]) >= 4

\* C14: a step that deletes files outside compress deletes exactly the
\* hourly files whose name is more than 48 hours old and the daily files
\* whose name is more than 30 days old; files inside their window and files
\* whose name does not parse are never deleted.
C14_Cleanup ==
    [][/\ \A n \in RawNames :
            (raw_dir[n] # Absent /\ raw_dir'[n] = Absent)
               => /\ n # JunkName
                  /\ fs_now - n > max_raw_files
                  /\ \A m \in Instants : fs_now - m > max_raw_files => raw_dir'[m] = Absent
                  /\ \A m \in DayNames \ {JunkName} :
                        DateOf(fs_now) - m > max_daily_files => daily_dir'[m] = Absent
       /\ \A n \in DayNames :
            (compress_pc = None /\ daily_dir[n] # Absent /\ daily_dir'[n] = Absent)
               => /\ n # JunkName
                  /\ DateOf(fs_now) - n > max_daily_files
                  /\ \A m \in Instants : fs_now - m > max_raw_files => raw_dir'[m] = Absent
                  /\ \A m \in DayNames \ {JunkName} :
                        DateOf(fs_now) - m > max_daily_files => daily_dir'[m] = Absent]_vars

\* An hourly file and a daily file have been deleted while a younger hourly
\* file and the files of other origin are still there.
C14_Witness ==
    /\ raw_dir[JunkName] # Absent
    /\ daily_dir[JunkName] # Absent
    /\ \E g, h \in Instants :
          /\ logged[g] > 0 /\ raw_dir[g] = Absent
          /\ raw_dir[h] # Absent
    /\ \E d \in ObservedDays :
          /\ \E g \in RawNamesOf(d) : logged[g] > 0
          /\ daily_dir[d] = Absent
          /\ compressed_dir[d] = Absent
          /\ DateOf(fs_now) - d > max_daily_files

\* C15: compress removes a daily file only when the archive directory holds
\* its complete gzip copy; a copy that fails leaves the original; and the
\* complete archive of a removed daily file stays.
C15_CompressThenDelete ==
    [][\A d \in ObservedDays :
         /\ (compress_pc # None /\ daily_dir[d] # Absent /\ daily_dir'[d] = Absent)
               => compressed_dir'[d] = Archive(daily_dir[d])
         /\ (compress_pc = None /\ compressed_dir'[d] # compressed_dir[d]
                                /\ compressed_dir'[d] # Archive(daily_dir[d]))
               => daily_dir'[d] = daily_dir[d] /\ daily_dir[d] # Absent
         /\ (daily_dir[d] = Absent /\ compressed_dir[d] # Absent /\ compressed_dir[d] # Truncated)
               => compressed_dir'[d] = compressed_dir[d]]_vars

\* A daily file has been removed after its archive was written, and the
\* copy of another daily file has failed.
C15_Witness ==
    \E d, e \in ObservedDays :
        /\ daily_dir[d] = Absent /\ compressed_dir[d] # Absent
        /\ daily_dir[e] # Absent /\ compressed_dir[e] = Truncated

\* C16: a call of set_two_point_calibration whose boiling reading equals its
\* ice reading fails with an error, and neither the stored calibration file
\* (the profile of every channel, the target included) nor a write in
\* progress is changed by it.
C16_RejectEqualReadings ==
    [][(/\ cal_call' # cal_call
        /\ cal_call'.op = "set_two_point_calibration"
        /\ cal_call'.args[1] = cal_call'.args[2])
          => /\ cal_call'.ret \in {"ValueError", "JSONDecodeError"}
             /\ calibration_json' = calibration_json
             /\ cal_pending' = cal_pending]_vars

\* A two-point calibration with equal readings has been rejected for a
\* channel that has a stored profile, another channel having one as well.
C16_Witness ==
    /\ cal_call.op = "set_two_point_calibration"
    /\ cal_call.args[1] = cal_call.args[2]
    /\ cal_call.ret = "ValueError"
    /\ calibration_json.readable
    /\ str(cal_call.channel) \in DOMAIN calibration_json.factors
    /\ \E c \in Channels : c # cal_call.channel /\ str(c) \in DOMAIN calibration_json.factors

\* The value the claim gives for a raw temperature under the stored object
\* factors; entries of the legacy format are not constrained.
ClaimedCorrection(factors, channel, raw, value) ==
    LET channel_key == str(channel) IN
    IF channel_key \notin DOMAIN factors
      THEN value = raw
      ELSE LET profile == factors[channel_key] IN
           is_dict(profile) =>
               /\ profile.calibration_method = "none" => value = raw
               /\ profile.calibration_method = "simple" => value = raw * profile.factor
               /\ profile.calibration_method = "two_point"
                     => value = (raw * profile.slope) + profile.offset

\* C17: apply_correction never raises, and it returns the raw temperature
\* for a channel without stored profile or of method "none", raw * factor
\* for method "simple" and raw * slope + offset for method "two_point".
C17_ApplyCorrection ==
    [][applied' # applied
          => /\ ~applied'.raised
             /\ ClaimedCorrection(calibration_json.factors, applied'.channel,
                                  applied'.temperature, applied'.value)]_vars

\* The observed call is a call of op on a known channel: of the two maps it
\* changes at most the entry of that channel in map (the other map is other).
OnlyEntry(call, op, map, mapAfter, other, otherAfter) ==
    (call.op = op /\ call.channel \in Channels) =>
        /\ call.ret
        /\ otherAfter = other
        /\ \A c \in Channels \ {call.channel} : mapAfter[c] = map[c]

\* C18: a call of set_sensor_status or set_sensor_interval with a channel
\* outside 1..N returns False and leaves every flag and every interval as they
\* were; with a channel of 1..N it returns True and changes nothing but that
\* channel's flag (respectively interval); and after every call each channel
\* of 1..N has exactly one flag and one interval.
C18_KnownChannels ==
    [][(\/ cfg_call' # cfg_call
        \/ sensor_active_status' # sensor_active_status
        \/ sensor_intervals' # sensor_intervals)
          => /\ cfg_call'.channel \notin Channels
                   => /\ ~cfg_call'.ret
                      /\ UNCHANGED <<sensor_active_status, sensor_intervals>>
             /\ OnlyEntry(cfg_call', "set_sensor_status",
                          sensor_active_status, sensor_active_status',
                          sensor_intervals, sensor_intervals')
             /\ OnlyEntry(cfg_call', "set_sensor_interval",
                          sensor_intervals, sensor_intervals',
                          sensor_active_status, sensor_active_status')
             /\ cfg_call'.op \in {"set_sensor_status", "set_sensor_interval"}
             /\ DOMAIN sensor_active_status' = Channels
             /\ DOMAIN sensor_intervals' = Channels]_vars

\* A flag and an interval have been changed, and the last call, for an
\* unknown channel, has returned False.
C18_Witness ==
    /\ cfg_call.channel \notin Channels /\ cfg_call.op # "none" /\ ~cfg_call.ret
    /\ \E c \in Channels : ~sensor_active_status[c]
    /\ \E c \in Channels : sensor_intervals[c] # SAMPLE_INTERVAL_SECONDS

\* C19: in every reachable state the interval of every channel is an integer
\* greater than or equal to 1.
C19_IntervalAtLeastOne ==
    \A c \in Channels : sensor_intervals[c] \in Int /\ sensor_intervals[c] >= 1

\* C20: the result of get_latest_readings holds exactly one row for every
\* channel that has rows in the table and none for the other channels, and
\* that row is a row of the table carrying the greatest timestamp of its
\* channel, also when several rows of the channel carry it.
C20_QueryLatest ==
    queried =>
        /\ latest \subseteq Rows(readings)
        /\ \A c \in Channels :
              LET stored == {r \in Rows(readings) : r.thermocouple_id = c}
                  returned == {r \in latest : r.thermocouple_id = c}
              IN  /\ Cardinality(returned) = (IF stored = {} THEN 0 ELSE 1)
                  /\ \A r \in returned : \A q \in stored : q.timestamp <= r.timestamp

\* The backends the persisted configuration names.
ConfiguredBackends == backends_of(config_database_type)

ConnectivityTitles ==
    {"SMTC Board Disconnected", "SMTC Board Reconnected", "Internet Connection Restored"}

\* The connectivity alerts raised so far.
ConnectivityAlerts(q) ==
    Cardinality({k \in 1..Len(q) : q[k].title \in ConnectivityTitles})

\* C22: a step raises a connectivity alert only when the state it records
\* for the board or for the Internet connection differs from the state
\* recorded before, so a check that observes the recorded state again raises
\* none; and after every check the recorded state is the result of the check.
C22_AlertOnChange ==
    [][/\ ConnectivityAlerts(accepted') > ConnectivityAlerts(accepted)
          => \/ internet_connected' # internet_connected
             \/ board_connected' # board_connected
       /\ internet_connected' = checked'.internet
       /\ board_connected' = checked'.board]_vars

\* The connection was lost and found again: the check that found it again
\* has raised the only alert there is, and the recorded state is its result.
C22_Witness ==
    /\ checked.internet /\ internet_connected
    /\ ConnectivityAlerts(accepted) = 1
    /\ Len(accepted) = 1

\* The alerts of the given title raised so far.
Raised(q, title) == Cardinality({k \in 1..Len(q) : q[k].title = title})

\* The last n of the valid readings are at or above the warning threshold.
LastAtOrAbove(temps, n) ==
    /\ Len(temps) >= n
    /\ \A k \in (Len(temps) - n + 1)..Len(temps) : temps[k] >= temp_warning_threshold

\* C23: a step raises the alert "High CPU Temperature" only when the last
\* three valid readings, the one of the step included, were at or above the
\* warning threshold; a valid reading below the warning threshold sets the
\* count to zero; and a valid reading at or above the critical threshold
\* makes its check create the alert "Critical CPU Temperature", whatever the
\* count.
C23_WarnAfterThree ==
    [][/\ Raised(accepted', "High CPU Temperature") > Raised(accepted, "High CPU Temperature")
          => LastAtOrAbove(cpu_temps', 3)
       /\ (cpu_temps' # cpu_temps /\ cpu_temps'[Len(cpu_temps')] < temp_warning_threshold)
          => consecutive_temp_warnings' = 0
       /\ (cpu_temps' # cpu_temps /\ cpu_temps'[Len(cpu_temps')] >= temp_critical_threshold)
          => accepted' = create_alert(accepted, "Critical CPU Temperature")]_vars

\* A normal reading has set the count to zero, the critical reading after it
\* has been reported at once, and the warning has been raised by the third
\* high reading in a row.
C23_Witness ==
    /\ cpu_temps = <<60, 85, 75, 75>>
    /\ Raised(accepted, "Critical CPU Temperature") = 1
    /\ Raised(accepted, "High CPU Temperature") = 1
    /\ consecutive_temp_warnings = 3

\* C24: when a delivery attempt has failed, the alert's retry_count has
\* grown by one and the alert is still on the queue for a further attempt;
\* an alert is marked sent, and recorded among the sent alerts, exactly when
\* its delivery has succeeded.
C24_RetryFailed ==
    [][Len(alert_queue') < Len(alert_queue)
          => /\ taken'.sent <=> sent_alerts' = Append(sent_alerts, taken'.alert)
             /\ ~taken'.sent
                   => /\ taken'.retry_count = 1
                      /\ \E k \in DOMAIN alert_queue' : alert_queue'[k] = taken'.alert]_vars

\* C25: when the process is killed, at whatever point of an update of
\* queued_alerts.json, the file holds a complete document, the content from
\* before the update or the content the update was writing; so a load after
\* the restart finds the alerts saved before.
C25_OldOrNew ==
    [][(save_call'.pc = "killed" /\ save_call.pc # "killed")
          => /\ ~queue_torn'
             /\ save_call.pc # "idle" => queued_alerts' \in {save_call.old, save_call.new}]_vars

\* C26: whatever the order of the log_reading and close() calls, every
\* hourly file holds one data line for each log_reading made with a
\* timestamp of its hour: a log_reading that finds the handle closed, also
\* right after close() and for the hour of the file that was closed, opens
\* the file again and appends its line.
C26_WriteAfterClose ==
    \A h \in Instants :
        logged[h] = Occurrences(raw_dir[h], DataLine(h))

\* C27: in every reachable state at most one hourly file is open for
\* writing, and it is the file the logger's handle is on.
C27_OneOpenFile ==
    /\ Cardinality(open_handles) <= 1
    /\ current_raw_file = None => open_handles = {}

\* The logger has written to the files of two hours, and only the second is
\* open.
C27_Witness ==
    \E g, h \in Instants :
        /\ g < h
        /\ logged[g] >= 1 /\ logged[h] >= 1
        /\ open_handles = {h}

\* C28: a read of channel i that yields no value sets the enabled flag of i
\* to false and leaves the flags of the other channels and all intervals as
\* they are; no step of a loop thread sets a flag to true; and a loop thread
\* goes on to read a channel only while its flag is true, so a channel the
\* loop has disabled is not read before set_sensor_status has enabled it.
C28_DisabledOnNoValue ==
    [][\A t \in Threads :
         /\ (DidRead(t) /\ ~daq_connected')
               => /\ ~sensor_active_status'[ti[t]]
                  /\ \A c \in Channels \ {ti[t]} :
                        sensor_active_status'[c] = sensor_active_status[c]
                  /\ sensor_intervals' = sensor_intervals
         /\ (tpc'[t] # tpc[t] \/ ti'[t] # ti[t])
               => \A c \in Channels : sensor_active_status'[c] => sensor_active_status[c]
         /\ (tpc[t] # "read" /\ tpc'[t] = "read")
               => sensor_active_status[ti'[t]]]_vars

\* The loop has disabled channel 1 on a read without a value and has gone on
\* to channel 2, which is still enabled at its own interval.
C28_Witness ==
    \E t \in Threads :
        /\ is_alive(t) /\ tpc[t] = "for" /\ ti[t] = 2
        /\ ~daq_connected
        /\ ~sensor_active_status[1] /\ last_log_time[t][1] = 0
        /\ sensor_active_status[2]
        /\ sensor_intervals[2] = SAMPLE_INTERVAL_SECONDS

\* C29: a loop thread goes on to read a channel only when the channel is
\* enabled and the time of the tick is at least the channel's interval after
\* its last_log_time; and last_log_time of a channel changes only at the
\* record step of that channel, to the time of the tick, and only when the
\* Reading has been recorded in a sink: it stays as it is when the read
\* yields no value and when the recording fails.
C29_DueAndRecorded ==
    [][\A t \in Threads :
         /\ (tpc[t] # "read" /\ tpc'[t] = "read")
               => /\ sensor_active_status[ti'[t]]
                  /\ current_time[t] - last_log_time[t][ti'[t]] >= sensor_intervals[ti'[t]]
         /\ \A c \in Channels :
               (tstate'[t] = tstate[t] /\ last_log_time'[t][c] # last_log_time[t][c])
                  => /\ tpc[t] = "db" /\ c = ti[t]
                     /\ last_log_time'[t][c] = current_time[t]
                     /\ Reading(t) \in text_log' \cup db_rows']_vars

\* C30: an exception raised in a tick takes the loop thread to its handler
\* and from there back to the test of the loop, never to its end: a thread
\* ends only at the test of the loop and only with logging_stop_event set;
\* and a thread in the handler eventually starts another tick or is stopped.
C30_LoopSurvives ==
    /\ [][\A t \in Threads :
            /\ (tpc[t] = "except" /\ tpc'[t] # "except")
                  => tpc'[t] = "while" /\ tstate'[t] = "alive"
            /\ (tstate[t] = "alive" /\ tstate'[t] # "alive")
                  => tpc[t] = "while" /\ logging_stop_event]_vars
    /\ \A t \in Threads :
          (tpc[t] = "except") ~> (tpc[t] = "for" \/ tstate[t] = "dead")

\* The insert has raised in an earlier tick, after the text line had been
\* written, and the loop is reading the same channel again.
C30_Witness ==
    \E t \in Threads :
        /\ is_alive(t) /\ tpc[t] = "read" /\ ti[t] = 1
        /\ ~db_up /\ ~logging_stop_event
        /\ <<1, T0>> \in text_log
        /\ last_log_time[t][1] = 0

C32_DeletedAfterConsolidation ==
    [][\A h \in Instants :
         (maint_pc = "cleanup" /\ raw_dir[h] # Absent /\ raw_dir'[h] = Absent)
            => \A k \in 2..Len(raw_dir[h]) :
                  \/ Occurrences(daily_dir[DateOf(h)], raw_dir[h][k]) >= 1
                  \/ /\ compressed_dir[DateOf(h)] # Absent
                     /\ compressed_dir[DateOf(h)] # Truncated
                     /\ Occurrences(compressed_dir[DateOf(h)][2], raw_dir[h][k]) >= 1]_vars

\* C33: at most one caller is inside the locked part of log_reading, and
\* every data line of an hourly file carries a timestamp of the hour the
\* file is named after, after the header line.
C33_Serialized ==
    /\ Cardinality({w \in Writers : wpc[w] \in {"ensure", "write"}}) <= 1
    /\ \A h \in Instants :
          raw_dir[h] # Absent
             => /\ raw_dir[h][1] = Header
                /\ \A k \in 2..Len(raw_dir[h]) :
                      raw_dir[h][k] = DataLine(get_raw_filename(h))

\* One caller is about to write its line for an earlier hour, after it has
\* switched the handle back from the file of a later hour, while the other
\* caller waits for the lock with a timestamp of the later hour.
C33_Witness ==
    \E v, w \in Writers, g, h \in Instants :
        /\ g < h
        /\ wpc[v] = "write" /\ wts[v] = g /\ text_lock = v
        /\ wpc[w] = "wait" /\ wts[w] = h
        /\ logged[h] >= 1 /\ current_raw_file = g


\* C34: an hourly file is deleted only when it is not the file that is
\* open for writing, so that no write goes to a deleted file.
C34_OpenFileKept ==
    [][\A h \in Instants :
          (raw_dir[h] # Absent /\ raw_dir'[h] = Absent) => current_raw_file # h]_vars


\* --- SpecBoard: the dispatcher while the board comes and goes -------------
\* As SpecWatch, with the driver connecting to the board and losing it.
NextBoard ==
    \/ \E title \in AlertTitles : RaiseAlert(title)
    \/ \E smtpOk \in BOOLEAN : WorkerObserved(smtpOk)
    \/ \E internet_now \in BOOLEAN : CheckObserved(internet_now)
    \/ AlertTick
    \/ \E ok \in BOOLEAN : connect(ok)
    \/ disconnect

SpecBoard == InitAlert /\ [][NextBoard]_vars

\* C35: the result of the board probe of a connectivity check is the
\* connected flag of the driver at the time of the check.
C35_ProbeTellsDriver ==
    [][(\E internet_now \in BOOLEAN : CheckObserved(internet_now))
          => checked'.board = daq_connected]_vars


\* C36: a check raises the alert "Critical CPU Temperature" only when the
\* valid reading before it was below the critical threshold, and the alert
\* "High CPU Temperature" only when the alert was not already due at the
\* valid reading before it.
C36_EdgeTriggered ==
    [][/\ Raised(accepted', "Critical CPU Temperature")
             > Raised(accepted, "Critical CPU Temperature")
          => \/ cpu_temps = <<>>
             \/ cpu_temps[Len(cpu_temps)] < temp_critical_threshold
       /\ Raised(accepted', "High CPU Temperature") > Raised(accepted, "High CPU Temperature")
          => ~LastAtOrAbove(cpu_temps, 3)]_vars


\* C37: a worker that was alive when a stop() returned takes no alert from
\* the queue afterwards.
C37_OldWorkerSilent ==
    [][\A w \in left_behind : ~(nw_pc[w] = "get" /\ nw_pc'[w] = "deliver")]_vars


\* C38: when switch_database has raised, the instance in use is connected
\* and db_type is what it was, and an insert made from then on does not
\* raise and is written to the backends of that instance.
C38_FailedSwitchHarmless ==
    [][/\ (switch_call.ret = "running" /\ switch_call'.ret = "raised")
          => /\ mgr_db'.open
             /\ self_db_type' = self_db_type
       /\ (switch_call.ret = "raised" /\ routed' # routed)
          => /\ ~routed'.raised
             /\ routed'.targets = backends_of(mgr_db.kind)]_vars


\* C39: two records of a channel in the text log, taken at different
\* times, are at least the interval of the channel apart.
C39_RecordsPaced ==
    \A r, q \in text_log :
        (r[1] = q[1] /\ r[2] < q[2]) => q[2] - r[2] >= sensor_intervals[r[1]]


\* No channel is enabled.
AllDisabled == \A c \in Channels : ~sensor_active_status[c]

\* C40: a read made while the driver is disconnected disables its channel
\* and the tick goes on with the next channel; a tick that has gone through
\* all channels, with no Reading recorded so far and no call of
\* set_sensor_status so far, ends with every channel disabled; and while
\* every channel is disabled no step starts a read or records a Reading,
\* whether the driver is connected or not.
C40_OffStaysOff ==
    [][/\ \A t \in Threads :
            /\ (tpc[t] = "read" /\ tpc'[t] # "read" /\ ~daq_connected)
                  => /\ ~sensor_active_status'[ti[t]]
                     /\ tpc'[t] = "for" /\ ti'[t] = ti[t] + 1
            /\ ( /\ tpc[t] = "for" /\ ti[t] > NUMBER_OF_CHANNELS /\ tpc'[t] = "while"
                 /\ text_log = {} /\ cfg_call.op = "none")
                  => AllDisabled
       /\ (AllDisabled /\ \A t \in Threads : tpc[t] \notin {"read", "text", "db"})
             => /\ \A t \in Threads : tpc'[t] # "read"
                /\ text_log' = text_log /\ db_rows' = db_rows]_vars

\* The loop has disabled every channel while the driver was disconnected;
\* the driver is connected now and the loop has gone through a tick without
\* a read, and nothing has been recorded.
C40_Witness ==
    /\ daq_connected /\ AllDisabled
    /\ text_log = {} /\ db_rows = {} /\ cfg_call.op = "none"
    /\ \E t \in Threads : is_alive(t) /\ tpc[t] = "for" /\ ti[t] > NUMBER_OF_CHANNELS

====
